---- MODULE Spec2Model ----
(***************************************************************************)
(* PL debugger: the breakpoint registry (plugin_debugger.c, globalbp.h),   *)
(* the proxy/target rendezvous over shared target slots (dbgcomm.c), the   *)
(* statement hook dbg_newstmt, the wire codec (readn, writen, dbg_send,    *)
(* getNString) and the session handles of the proxy (pldbgapi.c).          *)
(*                                                                         *)
(* Processes are PostgreSQL backends.  Proxies own GLOBAL breakpoints in   *)
(* shared memory; targets own a LOCAL table each.  The GLOBAL table is     *)
(* guarded by the LWLock breakpointLock: an operation that takes it in     *)
(* exclusive mode is one atomic step, BreakpointCleanupProc, which takes   *)
(* it in shared mode, is modelled step by step.                            *)
(***************************************************************************)
EXTENDS Integers, FiniteSets, Sequences, TLC

\* ---------------------------------------------------------------- bounds
MaxGlobal == 2        \* GLOBAL breakpoints that exist at the same time
MaxLocal  == 1        \* LOCAL breakpoints of one backend at the same time

\* ------------------------------------------------------------- scenario
Proxies    == {1, 2}          \* pids of the backends acting as proxy
Targets    == {3}                \* pids of the backends acting as target
StmtTargets == {3, 4}            \* pids of the backends that run PL statements
Procs      == Proxies \cup Targets
CommTargets == {3, 4}            \* pids of the backends that rendezvous as target
CommProxies == {1}               \* pid of the backend that rendezvous as proxy
CommProcs   == CommProxies \cup CommTargets
DialProxies == {1, 2}            \* pids of two proxies that ask for the same target
AnyPid     == -1                 \* BreakpointKey.targetPid: any process
OtherPid   == 4                  \* pid of a backend that is not modelled
TargetPids == {AnyPid, 3, OtherPid}
Funcs      == {1, 2}             \* function OIDs
\* the target pids the proxies ask for: function 1 gets breakpoints for the
\* target and for any process, function 2 for the target and for OtherPid
TargetPidsOf(f) == IF f = 1 THEN {AnyPid, 3} ELSE {3, OtherPid}
EntryLine  == -1                 \* lineNumber of a function's first statement
StmtLines  == {1}                \* stmt->lineno of the other statements
Lines      == {EntryLine} \cup StmtLines
DbOf(p)    == 1                  \* MyProc->databaseId
ProxyPortOf(p) == 100 + p        \* session->serverPort of proxy p
NoPort     == -1                 \* proxyPort of a local breakpoint
NoPid      == -1                 \* proxyPid of a local breakpoint

BP_LOCAL  == 0
BP_GLOBAL == 1
Scopes    == {BP_LOCAL, BP_GLOBAL}

NULL == [found |-> FALSE]
None == "none"

VARIABLES
    globalBreakpoints,   \* BreakpointKey -> BreakpointData (shared memory)
    globalBreakCounts,   \* BreakCountKey -> count          (shared memory)
    localBreakpoints,    \* per backend: BreakpointKey -> BreakpointData
    localBreakCounts,    \* per backend: BreakCountKey -> count
    breakpointLock,      \* the backends holding breakpointLock in shared mode
    pc,                  \* per backend: position inside BreakpointCleanupProc
    cleanupKey,          \* per backend: BreakCountKey being decremented
    cleanupCnt,          \* per backend: the count value loaded by count--
    client_w,            \* per backend: per_session_ctx.client_w (0: none)
    step_into_next_func  \* per backend: per_session_ctx.step_into_next_func

bpvars == <<globalBreakpoints, globalBreakCounts, localBreakpoints,
            localBreakCounts, breakpointLock, pc, cleanupKey, cleanupCnt,
            client_w, step_into_next_func>>

VARIABLES
    dbgcomm_slots,   \* slot index -> [backendid, status, pid, port]
    boundPorts,      \* ephemeral ports bound by a live socket
    conns,           \* connections made: [src, dst, from] -> "pending"/"accepted"/"closed"
    cpc,             \* per backend: position in its dbgcomm routine
    slot,            \* per backend: the local variable slot
    localport,       \* per backend: port its socket is bound to (0: none)
    remoteport,      \* per proxy: port read from the target's slot
    sock,            \* per backend: the connection the routine returned
    targetPid        \* per proxy: *targetPid set by dbgcomm_accept_target

commvars == <<dbgcomm_slots, boundPorts, conns, cpc, slot, localport,
              remoteport, sock, targetPid>>

VARIABLES
    spc,             \* per target: where it is in dbg_newstmt ("exec": outside)
    curFunc,         \* per target: fn_oid of the running invocation (0: none)
    curLine,         \* per target: line dbg_newstmt was last called for (0: none)
    plugin_info,     \* per target: frame->plugin_info is not NULL
    stepping,        \* per target: dbg_info->stepping
    bkpt,            \* per target: the locals breakpoint and breakpointScope
    accepting        \* per proxy: it is inside pldbg_wait_for_target's accept

stmtvars == <<spc, curFunc, curLine, plugin_info, stepping, bkpt, accepting>>

VARIABLES
    dir,             \* which sender / receiver pair holds the socket (None: not known yet)
    sent,            \* the strings handed to sendString / dbg_send so far
    wbuf,            \* writer: the bytes send() has not taken yet
    wire,            \* the bytes in the socket
    rpc,             \* reader: "idle", or in readn for the "len" or the "body"
    rlen,            \* reader: the len argument of the running readn
    bytesRemaining,  \* reader: bytesRemaining of the running readn
    rpos,            \* reader: buffer - dst of the running readn
    rdst,            \* reader: the bytes stored in dst so far
    consumed,        \* bytes recv() has taken from the socket
    delivered,       \* what getNString / dbg_read_str returned so far
    eintr,           \* recv / send calls that returned -1 with EINTR
    partial,         \* some recv returned fewer bytes than asked for
    oob,             \* a byte was stored in front of dst
    lost             \* the connection-lost condition signalled (None: none)

wirevars == <<dir, sent, wbuf, wire, rpc, rlen, bytesRemaining, rpos, rdst,
              consumed, delivered, eintr, partial, oob, lost>>

VARIABLES
    nextHandle,         \* the static nextHandle of addSession
    sessionHash,        \* sessionHandle -> debugSession
    mostRecentSession,  \* the static mostRecentSession (0: NULL)
    allocated,          \* debugSession objects allocated so far
    lastCall,           \* the last pldbg_ function called, with its handle
    ret,                \* what it returned: a handle or a session
    raised              \* it raised an error

sessvars == <<nextHandle, sessionHash, mostRecentSession, allocated, lastCall,
              ret, raised>>

VARIABLES
    frames,          \* the PL call stack of the target, innermost frame last:
                     \* [func, line, plugin_info, stepping] of each estate
    lpc,             \* "exec": the executor runs, "command": in dbg_read_str
    frame,           \* the local `frame' of dbg_newstmt: index into frames
    out,             \* the messages sent since the last command was read
    lastCmd,         \* tag of the last command read during this pause
    err,             \* the error that aborted the last statement (None: none)
    cur,             \* the statement dbg_newstmt was called for last: its kind
                     \* and its stmt->lineno, the parity of the number of such
                     \* calls, and lookup: the call has called breakAtThisLine
    resumed          \* the resume command that ended the last pause: its tag,
                     \* the depth of the frame it was issued in (0 once that
                     \* frame has returned), fresh: no statement other than a
                     \* block has begun since, found: breakAtThisLine has
                     \* found a breakpoint since

loopvars == <<frames, lpc, frame, out, lastCmd, err, cur, resumed>>

VARIABLES
    dep_pc,          \* position inside do_deposit ("idle": not in it)
    dep_cmd,         \* the deposit command, and the variables on entry (old)
    datum,           \* the value of the PL variable of each type
    select,          \* the query text built by sprintf
    subxacts,        \* internal subtransactions that are open
    dep_out          \* the replies sent for this command

depositvars == <<dep_pc, dep_cmd, datum, select, subxacts, dep_out>>

VARIABLES
    debuggerLock,        \* the backend holding getPLDebuggerLock() (NoLock: none)
    wpc,                 \* per backend: the dbgcomm call it is inside, under the lock
    wret,                \* per backend: what its last dbgcomm call returned
                         \* (-1: failure, 1: a socket, 0: not returned yet)
    werr,                \* per backend: the error its last dbgcomm call raised
    QueryCancelPending,  \* per backend: a query cancel has been requested
    postmasterAlive      \* PostmasterIsAlive()

waitvars == <<debuggerLock, wpc, wret, werr, QueryCancelPending, postmasterAlive>>

VARIABLES
    wft_pc,          \* where the proxy is in pldbg_wait_for_target ("out": not in it)
    serverSocket,    \* session->serverSocket: a connection, or -1
    wft_conns,       \* the connections accepted on session->listener: the
                     \* credentials the target sends, whether the proxy still
                     \* has it open, and the strings the proxy has sent on it
    wft_err,         \* the error the last call raised (None: none)
    wft_ret          \* what the last call returned (0: NULL, or nothing yet)

proxyvars == <<wft_pc, serverSocket, wft_conns, wft_err, wft_ret>>

VARIABLES
    lst              \* per target: where it is in send_breakpoints ("out": not
                     \* in it), the function of the frame, and the entries of
                     \* the table under scan that have been sent

listvars == <<lst>>

\* what the actions of one part of the program leave alone
offBp   == <<commvars, stmtvars, wirevars, sessvars, loopvars, depositvars,
             waitvars, proxyvars, listvars>>
offList == <<commvars, stmtvars, wirevars, sessvars, loopvars, depositvars,
             waitvars, proxyvars>>
offComm == <<bpvars, stmtvars, wirevars, sessvars, loopvars, depositvars,
             waitvars, proxyvars, listvars>>
offStmt == <<commvars, wirevars, sessvars, loopvars, depositvars, waitvars, proxyvars, listvars>>
offWire == <<bpvars, commvars, stmtvars, sessvars, loopvars, depositvars,
             waitvars, proxyvars, listvars>>
offSess == <<bpvars, commvars, stmtvars, wirevars, loopvars, depositvars,
             waitvars, proxyvars, listvars>>
offLoop == <<commvars, stmtvars, wirevars, sessvars, depositvars, waitvars, proxyvars, listvars>>
offDeposit == <<bpvars, commvars, stmtvars, wirevars, sessvars, loopvars,
                waitvars, proxyvars, listvars>>
offProxy == <<commvars, stmtvars, wirevars, sessvars, loopvars, depositvars,
              waitvars, listvars>>
offWait == <<bpvars, stmtvars, wirevars, sessvars, loopvars, depositvars,
             proxyvars, listvars>>

\* ------------------------------------------------------ data structures
BreakpointKey(db, f, l, t) ==
    [databaseId |-> db, functionId |-> f, lineNumber |-> l, targetPid |-> t]

BreakpointData(tmp, busy, port, pid) ==
    [isTmp |-> tmp, busy |-> busy, proxyPort |-> port, proxyPid |-> pid]

\* the cast (BreakCountKey *) key: the leading fields of a BreakpointKey
BreakCountKey(key) ==
    [databaseId |-> key.databaseId, functionId |-> key.functionId]

EmptyTable == [k \in {} |-> 0]

getBreakpointHash(scope, p) ==
    IF scope = BP_GLOBAL THEN globalBreakpoints ELSE localBreakpoints[p]

getBreakCountHash(scope, p) ==
    IF scope = BP_GLOBAL THEN globalBreakCounts ELSE localBreakCounts[p]

\* hash_search(.., HASH_REMOVE, ..)
HashRemove(h, key) == [k \in (DOMAIN h) \ {key} |-> h[k]]

\* hash_search(.., HASH_ENTER, ..) followed by a store into the entry
HashStore(h, key, val) ==
    [k \in (DOMAIN h) \cup {key} |-> IF k = key THEN val ELSE h[k]]

\* ------------------------------------------------------ BreakCount table
breakCountInsert(counts, ck) ==
    IF ck \in DOMAIN counts
    THEN HashStore(counts, ck, counts[ck] + 1)
    ELSE HashStore(counts, ck, 1)

breakCountDelete(counts, ck) ==
    IF ck \in DOMAIN counts
    THEN IF counts[ck] - 1 = 0
         THEN HashRemove(counts, ck)
         ELSE HashStore(counts, ck, counts[ck] - 1)
    ELSE counts

breakCountLookup(counts, ck) ==
    IF ck \in DOMAIN counts
    THEN [found |-> TRUE,  count |-> counts[ck]]
    ELSE [found |-> FALSE, count |-> -1]

\* ------------------------------------------------------ registry calls
\* Each call maps (table, counts) to (table, counts, return value).
BreakpointLookup(scope, p, key) ==
    LET h == getBreakpointHash(scope, p)
    IN  IF key \in DOMAIN h
        THEN [found |-> TRUE, key |-> key, data |-> h[key]]
        ELSE NULL

BreakpointOnId(scope, p, funcOid) ==
    breakCountLookup(getBreakCountHash(scope, p),
                     [databaseId |-> DbOf(p), functionId |-> funcOid]).found

\* BreakpointInsert that stores the data over a colliding entry
BreakpointInsert_overwrite(h, counts, key, data) ==
    IF key \in DOMAIN h
    THEN [bp |-> HashStore(h, key, data), cnt |-> counts, ret |-> FALSE]
    ELSE [bp  |-> HashStore(h, key, [data EXCEPT !.busy = FALSE]),
          cnt |-> breakCountInsert(counts, BreakCountKey(key)),
          ret |-> TRUE]

BreakpointInsert(h, counts, key, data) ==
    IF key \in DOMAIN h
    THEN [bp |-> h, cnt |-> counts, ret |-> FALSE]
    ELSE [bp  |-> HashStore(h, key, [data EXCEPT !.busy = FALSE]),
          cnt |-> breakCountInsert(counts, BreakCountKey(key)),
          ret |-> TRUE]

\* BreakpointInsertOrUpdate that leaves an existing entry as it is
BreakpointInsertOrUpdate_keep(h, counts, key, data) ==
    IF key \in DOMAIN h
    THEN [bp |-> h, cnt |-> counts, ret |-> FALSE]
    ELSE [bp  |-> HashStore(h, key, [data EXCEPT !.busy = FALSE]),
          cnt |-> breakCountInsert(counts, BreakCountKey(key)),
          ret |-> TRUE]

BreakpointInsertOrUpdate(h, counts, key, data) ==
    IF key \in DOMAIN h
    THEN [bp |-> HashStore(h, key, data), cnt |-> counts, ret |-> FALSE]
    ELSE [bp  |-> HashStore(h, key, [data EXCEPT !.busy = FALSE]),
          cnt |-> breakCountInsert(counts, BreakCountKey(key)),
          ret |-> TRUE]

BreakpointDelete(h, counts, key) ==
    IF key \in DOMAIN h
    THEN [bp  |-> HashRemove(h, key),
          cnt |-> breakCountDelete(counts, BreakCountKey(key)),
          ret |-> TRUE]
    ELSE [bp |-> h, cnt |-> counts, ret |-> FALSE]

\* BreakpointFreeSession that flips busy instead of clearing it
BreakpointFreeSession_toggle(g, pid) ==
    [k \in DOMAIN g |->
        IF g[k].proxyPid = pid THEN [g[k] EXCEPT !.busy = ~g[k].busy] ELSE g[k]]

\* BreakpointFreeSession: the GLOBAL table after the scan
BreakpointFreeSession(g, pid) ==
    [k \in DOMAIN g |->
        IF g[k].proxyPid = pid THEN [g[k] EXCEPT !.busy = FALSE] ELSE g[k]]

\* BreakpointBusySession, GLOBAL side: busy is set on every entry of pid
BusyGlobal(g, pid) ==
    [k \in DOMAIN g |->
        IF g[k].proxyPid = pid THEN [g[k] EXCEPT !.busy = TRUE] ELSE g[k]]

\* BusyLocal that copies the entries under the key they have in GLOBAL
RECURSIVE BusyLocal_sameKey(_, _, _, _, _)
BusyLocal_sameKey(g, order, me, h, counts) ==
    IF order = <<>>
    THEN [bp |-> h, cnt |-> counts]
    ELSE LET gk  == Head(order)
             r   == BreakpointInsertOrUpdate(h, counts, gk, g[gk])
         IN  BusyLocal_sameKey(g, Tail(order), me, r.bp, r.cnt)

\* BreakpointBusySession, LOCAL side: the entries of pid are visited in the
\* order `order' (the hash order); each is copied, with the value it had
\* before busy was set, under targetPid = MyProc->pid.
RECURSIVE BusyLocal(_, _, _, _, _)
BusyLocal(g, order, me, h, counts) ==
    IF order = <<>>
    THEN [bp |-> h, cnt |-> counts]
    ELSE LET gk  == Head(order)
             lk  == [gk EXCEPT !.targetPid = me]
             r   == BreakpointInsertOrUpdate(h, counts, lk, g[gk])
         IN  BusyLocal(g, Tail(order), me, r.bp, r.cnt)

OwnedBy(g, pid) == {k \in DOMAIN g : g[k].proxyPid = pid}

\* all the orders in which a set of keys can be visited
Orders(S) ==
    {s \in [1..Cardinality(S) -> S] : \A i, j \in 1..Cardinality(S) :
                                          i # j => s[i] # s[j]}

\* breakAtThisLine that looks into the LOCAL table first
breakAtThisLine_localFirst(p, funcOid, lineNumber) ==
    LET keyMe  == BreakpointKey(DbOf(p), funcOid, lineNumber, p)
        keyAny == BreakpointKey(DbOf(p), funcOid, lineNumber, AnyPid)
        g1     == BreakpointLookup(BP_GLOBAL, p, keyMe)
        g2     == BreakpointLookup(BP_GLOBAL, p, keyAny)
        l3     == BreakpointLookup(BP_LOCAL,  p, keyMe)
    IN  IF step_into_next_func[p]
        THEN [hit |-> TRUE, dst |-> NULL, scope |-> BP_LOCAL]
        ELSE IF l3.found
        THEN [hit |-> TRUE, dst |-> l3, scope |-> BP_LOCAL]
        ELSE IF g1.found /\ g1.data.busy = FALSE
        THEN [hit |-> TRUE, dst |-> g1, scope |-> BP_GLOBAL]
        ELSE IF g2.found /\ g2.data.busy = FALSE
        THEN [hit |-> TRUE, dst |-> g2, scope |-> BP_GLOBAL]
        ELSE [hit |-> FALSE, dst |-> l3, scope |-> BP_LOCAL]

\* breakAtThisLine that does not test busy
breakAtThisLine_ignoreBusy(p, funcOid, lineNumber) ==
    LET keyMe  == BreakpointKey(DbOf(p), funcOid, lineNumber, p)
        keyAny == BreakpointKey(DbOf(p), funcOid, lineNumber, AnyPid)
        g1     == BreakpointLookup(BP_GLOBAL, p, keyMe)
        g2     == BreakpointLookup(BP_GLOBAL, p, keyAny)
        l3     == BreakpointLookup(BP_LOCAL,  p, keyMe)
    IN  IF step_into_next_func[p]
        THEN [hit |-> TRUE, dst |-> NULL, scope |-> BP_LOCAL]
        ELSE IF g1.found
        THEN [hit |-> TRUE, dst |-> g1, scope |-> BP_GLOBAL]
        ELSE IF g2.found
        THEN [hit |-> TRUE, dst |-> g2, scope |-> BP_GLOBAL]
        ELSE IF l3.found
        THEN [hit |-> TRUE, dst |-> l3, scope |-> BP_LOCAL]
        ELSE [hit |-> FALSE, dst |-> l3, scope |-> BP_LOCAL]

\* ------------------------------------------------------ breakAtThisLine
breakAtThisLine(p, funcOid, lineNumber) ==
    LET keyMe  == BreakpointKey(DbOf(p), funcOid, lineNumber, p)
        keyAny == BreakpointKey(DbOf(p), funcOid, lineNumber, AnyPid)
        g1     == BreakpointLookup(BP_GLOBAL, p, keyMe)
        g2     == BreakpointLookup(BP_GLOBAL, p, keyAny)
        l3     == BreakpointLookup(BP_LOCAL,  p, keyMe)
    IN  IF step_into_next_func[p]
        THEN [hit |-> TRUE, dst |-> NULL, scope |-> BP_LOCAL]
        ELSE IF g1.found /\ g1.data.busy = FALSE
        THEN [hit |-> TRUE, dst |-> g1, scope |-> BP_GLOBAL]
        ELSE IF g2.found /\ g2.data.busy = FALSE
        THEN [hit |-> TRUE, dst |-> g2, scope |-> BP_GLOBAL]
        ELSE IF l3.found
        THEN [hit |-> TRUE, dst |-> l3, scope |-> BP_LOCAL]
        ELSE [hit |-> FALSE, dst |-> l3, scope |-> BP_LOCAL]

breakpointsForFunction(p, funcOid) ==
    BreakpointOnId(BP_LOCAL, p, funcOid) \/ BreakpointOnId(BP_GLOBAL, p, funcOid)

\* ------------------------------------------------------------ initial state
InitBp ==
    /\ globalBreakpoints   = EmptyTable
    /\ globalBreakCounts   = EmptyTable
    /\ localBreakpoints    = [t \in StmtTargets |-> EmptyTable]
    /\ localBreakCounts    = [t \in StmtTargets |-> EmptyTable]
    /\ breakpointLock      = {}
    /\ pc                  = [p \in Proxies |-> "run"]
    /\ cleanupKey          = [p \in Proxies |-> None]
    /\ cleanupCnt          = [p \in Proxies |-> 0]
    /\ client_w            = [t \in StmtTargets |-> 0]
    /\ step_into_next_func = [t \in StmtTargets |-> FALSE]

\* LWLockAcquire(breakpointLock, LW_EXCLUSIVE) succeeds: nobody holds it
LockFree == breakpointLock = {}

\* the tables of `scope' take the result r of a registry call made by p
StoreScope(scope, p, r) ==
    IF scope = BP_GLOBAL
    THEN /\ globalBreakpoints' = r.bp
         /\ globalBreakCounts' = r.cnt
         /\ UNCHANGED <<localBreakpoints, localBreakCounts>>
    ELSE /\ localBreakpoints' = [localBreakpoints EXCEPT ![p] = r.bp]
         /\ localBreakCounts' = [localBreakCounts EXCEPT ![p] = r.cnt]
         /\ UNCHANGED <<globalBreakpoints, globalBreakCounts>>

Size(h) == Cardinality(DOMAIN h)

\* the count of key's entity is below the bound n
CountBelow(counts, key, n) ==
    BreakCountKey(key) \in DOMAIN counts => counts[BreakCountKey(key)] < n

\* ------------------------------------------------------------ proxy side
\* pldbg_set_global_breakpoint(session, f, l, t); data.busy is not set by
\* the caller, so it arrives with either value.
pldbg_set_global_breakpoint(p, f, l, t, b) ==
    LET key  == BreakpointKey(DbOf(p), f, l, t)
        data == BreakpointData(TRUE, b, ProxyPortOf(p), p)
        r    == BreakpointInsert(globalBreakpoints, globalBreakCounts, key, data)
    IN  /\ pc[p] = "run"
        /\ LockFree
        /\ t \in TargetPidsOf(f)
        /\ key \in DOMAIN globalBreakpoints \/ Size(globalBreakpoints) < MaxGlobal
        /\ CountBelow(globalBreakCounts, key, MaxGlobal)
        /\ StoreScope(BP_GLOBAL, p, r)
        /\ UNCHANGED <<breakpointLock, pc, cleanupKey, cleanupCnt, client_w,
                       step_into_next_func>>

\* pldbg_wait_for_target: BreakpointFreeSession(MyProc->pid)
pldbg_wait_for_target(p) ==
    /\ pc[p] = "run"
    /\ LockFree
    /\ globalBreakpoints' = BreakpointFreeSession(globalBreakpoints, p)
    /\ UNCHANGED <<globalBreakCounts, localBreakpoints, localBreakCounts,
                   breakpointLock, pc, cleanupKey, cleanupCnt, client_w,
                   step_into_next_func>>

\* closeSession at backend exit: BreakpointCleanupProc(MyProcPid).
\* acquireLock(BP_GLOBAL, LW_SHARED): other shared holders do not block it.
CleanupAcquire(p) ==
    /\ pc[p] = "run"
    /\ breakpointLock' = breakpointLock \cup {p}
    /\ pc' = [pc EXCEPT ![p] = "scan"]
    /\ UNCHANGED <<globalBreakpoints, globalBreakCounts, localBreakpoints,
                   localBreakCounts, cleanupKey, cleanupCnt, client_w,
                   step_into_next_func>>

\* the positions of the scan; in the raced ones an unlink of this scan has
\* been undone by another backend
Scanning == {"scan", "scan_raced"}
Raced    == {"scan_raced", "dec_raced"}

\* one iteration of the scan: HASH_REMOVE of an entry of p, then the
\* HASH_FIND and the load of entry->count inside breakCountDelete.
\* hash_search unlinks the element from its bucket chain; with the lock
\* in shared mode another backend inside BreakpointCleanupProc unlinks
\* elements of the same chain at the same time, and the later store of
\* the two can link the element in again (a data race): the element is
\* then still in the table (undone), and the scan, which follows the same
\* links, may end before it has visited every element.  NextBp takes the
\* unlink as done; NextExit has both outcomes.
CleanupRemove(p, k, undone) ==
    LET ck == BreakCountKey(k)
        r  == undone \/ pc[p] \in Raced
    IN  /\ pc[p] \in Scanning
        /\ k \in OwnedBy(globalBreakpoints, p)
        /\ undone => \E q \in breakpointLock \ {p} :
                         OwnedBy(globalBreakpoints, q) # {}
        /\ globalBreakpoints' = IF undone THEN globalBreakpoints
                                        ELSE HashRemove(globalBreakpoints, k)
        /\ IF ck \in DOMAIN globalBreakCounts
           THEN /\ cleanupKey' = [cleanupKey EXCEPT ![p] = ck]
                /\ cleanupCnt' = [cleanupCnt EXCEPT ![p] = globalBreakCounts[ck]]
                /\ pc' = [pc EXCEPT ![p] = IF r THEN "dec_raced" ELSE "dec"]
           ELSE /\ pc' = [pc EXCEPT ![p] = IF r THEN "scan_raced" ELSE "scan"]
                /\ UNCHANGED <<cleanupKey, cleanupCnt>>
        /\ UNCHANGED <<globalBreakCounts, localBreakpoints, localBreakCounts,
                       breakpointLock, client_w, step_into_next_func>>

\* the store of entry->count - 1, and the HASH_REMOVE when it is zero
CleanupStore(p) ==
    LET ck == cleanupKey[p]
        c  == cleanupCnt[p] - 1
    IN  /\ pc[p] \in {"dec", "dec_raced"}
        /\ globalBreakCounts' =
              IF ck \in DOMAIN globalBreakCounts
              THEN IF c = 0 THEN HashRemove(globalBreakCounts, ck)
                            ELSE HashStore(globalBreakCounts, ck, c)
              ELSE globalBreakCounts
        /\ cleanupKey' = [cleanupKey EXCEPT ![p] = None]
        /\ cleanupCnt' = [cleanupCnt EXCEPT ![p] = 0]
        /\ pc' = [pc EXCEPT ![p] = IF pc[p] = "dec" THEN "scan"
                                                    ELSE "scan_raced"]
        /\ UNCHANGED <<globalBreakpoints, localBreakpoints, localBreakCounts,
                       breakpointLock, client_w, step_into_next_func>>

\* hash_seq_search returns NULL: releaseLock(BP_GLOBAL), and the backend
\* exits.  Its pid is free again: the next backend that gets it starts here.
CleanupRelease(p) ==
    /\ pc[p] \in Scanning
    /\ pc[p] = "scan" => OwnedBy(globalBreakpoints, p) = {}
    /\ breakpointLock' = breakpointLock \ {p}
    /\ pc' = [pc EXCEPT ![p] = "run"]
    /\ UNCHANGED <<globalBreakpoints, globalBreakCounts, localBreakpoints,
                   localBreakCounts, cleanupKey, cleanupCnt, client_w,
                   step_into_next_func>>

\* ----------------------------------------------------------- target side
\* addLocalBreakpoint(f, l): plpgsql_oid_debug passes l = -1 at any time,
\* the set-breakpoint command passes any line while a client is attached.
addLocalBreakpoint(t, f, l, b) ==
    LET key  == BreakpointKey(DbOf(t), f, l, t)
        data == BreakpointData(FALSE, b, NoPort, NoPid)
        r    == BreakpointInsert(localBreakpoints[t], localBreakCounts[t], key, data)
    IN  /\ l = EntryLine \/ client_w[t] # 0
        /\ key \in DOMAIN localBreakpoints[t] \/ Size(localBreakpoints[t]) < MaxLocal
        /\ StoreScope(BP_LOCAL, t, r)
        /\ UNCHANGED <<breakpointLock, pc, cleanupKey, cleanupCnt, client_w,
                       step_into_next_func>>

\* clearBreakpoint: the clear-breakpoint command of an attached client
clearBreakpoint(t, f, l) ==
    LET key == BreakpointKey(DbOf(t), f, l, t)
        r   == BreakpointDelete(localBreakpoints[t], localBreakCounts[t], key)
    IN  /\ client_w[t] # 0
        /\ StoreScope(BP_LOCAL, t, r)
        /\ UNCHANGED <<breakpointLock, pc, cleanupKey, cleanupCnt, client_w,
                       step_into_next_func>>

\* the step-into command of an attached client
cmd_step_into(t) ==
    /\ client_w[t] # 0
    /\ step_into_next_func' = [step_into_next_func EXCEPT ![t] = TRUE]
    /\ UNCHANGED <<globalBreakpoints, globalBreakCounts, localBreakpoints,
                   localBreakCounts, breakpointLock, pc, cleanupKey,
                   cleanupCnt, client_w>>

\* handle_socket_error: the jump to client_lost in dbg_newstmt
client_lost(t) ==
    /\ client_w[t] # 0
    /\ client_w' = [client_w EXCEPT ![t] = 0]
    /\ UNCHANGED <<globalBreakpoints, globalBreakCounts, localBreakpoints,
                   localBreakCounts, breakpointLock, pc, cleanupKey,
                   cleanupCnt, step_into_next_func>>

\* BreakpointBusySession(pid) called by backend t; the scan visits the
\* entries of pid in some order (the hash order)
BreakpointBusySession(t, pid) ==
    \E order \in Orders(OwnedBy(globalBreakpoints, pid)) :
        LET r == BusyLocal(globalBreakpoints, order, t,
                           localBreakpoints[t], localBreakCounts[t])
        IN  /\ LockFree
            /\ Size(r.bp) <= MaxLocal
            /\ globalBreakpoints' = BusyGlobal(globalBreakpoints, pid)
            /\ localBreakpoints'  = [localBreakpoints EXCEPT ![t] = r.bp]
            /\ localBreakCounts'  = [localBreakCounts EXCEPT ![t] = r.cnt]
            /\ UNCHANGED globalBreakCounts

\* dbg_newstmt for a statement of function f at which breakAtThisLine hits:
\* attach_to_proxy, and on failure the removal of the stale breakpoint.
\* `ok' is the outcome of connectAsServer / connectAsClient.
dbg_newstmt(t, f, first, lineno, ok) ==
    LET b == breakAtThisLine(t, f, IF first THEN EntryLine ELSE lineno)
    IN  /\ b.hit
        /\ step_into_next_func' = [step_into_next_func EXCEPT ![t] = FALSE]
        /\ UNCHANGED <<breakpointLock, pc, cleanupKey, cleanupCnt>>
        /\ IF client_w[t] # 0
           THEN \* already connected to a live proxy
                /\ ok
                /\ UNCHANGED <<globalBreakpoints, globalBreakCounts,
                               localBreakpoints, localBreakCounts, client_w>>
           ELSE IF b.dst = NULL
           THEN \* stepping into without a connection: give up
                /\ ~ok
                /\ client_w' = [client_w EXCEPT ![t] = 0]
                /\ UNCHANGED <<globalBreakpoints, globalBreakCounts,
                               localBreakpoints, localBreakCounts>>
           ELSE IF ok /\ b.dst.data.proxyPort = NoPort
           THEN \* connectAsServer succeeded
                /\ client_w' = [client_w EXCEPT ![t] = 1]
                /\ UNCHANGED <<globalBreakpoints, globalBreakCounts,
                               localBreakpoints, localBreakCounts>>
           ELSE IF ok
           THEN \* connectAsClient succeeded
                /\ client_w' = [client_w EXCEPT ![t] = 1]
                /\ BreakpointBusySession(t, b.dst.data.proxyPid)
           ELSE \* could not attach: BreakpointDelete(breakpointScope, key)
                /\ b.scope = BP_GLOBAL => LockFree
                /\ StoreScope(b.scope, t,
                      BreakpointDelete(getBreakpointHash(b.scope, t),
                                       getBreakCountHash(b.scope, t),
                                       b.dst.key))
                /\ client_w' = [client_w EXCEPT ![t] = 0]

NextBp ==
    \/ \E p \in Proxies, f \in Funcs, l \in Lines, t \in TargetPids, b \in BOOLEAN :
          pldbg_set_global_breakpoint(p, f, l, t, b) /\ UNCHANGED offBp
    \/ \E p \in Proxies : pldbg_wait_for_target(p) /\ UNCHANGED offBp
    \/ \E p \in Proxies : CleanupAcquire(p) /\ UNCHANGED offBp
    \/ \E p \in Proxies : \E k \in DOMAIN globalBreakpoints :
          CleanupRemove(p, k, FALSE) /\ UNCHANGED offBp
    \/ \E p \in Proxies : CleanupStore(p) /\ UNCHANGED offBp
    \/ \E p \in Proxies : CleanupRelease(p) /\ UNCHANGED offBp
    \/ \E t \in Targets, f \in Funcs, l \in Lines, b \in BOOLEAN :
          addLocalBreakpoint(t, f, l, b) /\ UNCHANGED offBp
    \/ \E t \in Targets, f \in Funcs, l \in Lines : clearBreakpoint(t, f, l) /\ UNCHANGED offBp
    \/ \E t \in Targets : cmd_step_into(t) /\ UNCHANGED offBp
    \/ \E t \in Targets : client_lost(t) /\ UNCHANGED offBp
    \/ \E t \in Targets, f \in Funcs, first \in BOOLEAN, lineno \in StmtLines,
          ok \in BOOLEAN :
          dbg_newstmt(t, f, first, lineno, ok) /\ UNCHANGED offBp

\* the proxies set breakpoints at the entry of the functions, targets
\* attach there, and the proxy backends exit, with both outcomes of the
\* unlink in BreakpointCleanupProc
NextExit ==
    \/ \E p \in Proxies, f \in Funcs, t \in TargetPids, b \in BOOLEAN :
          pldbg_set_global_breakpoint(p, f, EntryLine, t, b) /\ UNCHANGED offBp
    \/ \E p \in Proxies : CleanupAcquire(p) /\ UNCHANGED offBp
    \/ \E p \in Proxies : \E k \in DOMAIN globalBreakpoints : \E undone \in BOOLEAN :
          CleanupRemove(p, k, undone) /\ UNCHANGED offBp
    \/ \E p \in Proxies : CleanupStore(p) /\ UNCHANGED offBp
    \/ \E p \in Proxies : CleanupRelease(p) /\ UNCHANGED offBp
    \/ \E t \in Targets : client_lost(t) /\ UNCHANGED offBp
    \/ \E t \in Targets, f \in Funcs, lineno \in StmtLines, ok \in BOOLEAN :
          dbg_newstmt(t, f, TRUE, lineno, ok) /\ UNCHANGED offBp

TypeOKBp ==
    /\ \A k \in DOMAIN globalBreakpoints : globalBreakpoints[k].proxyPid \in Proxies
    /\ Size(globalBreakpoints) <= MaxGlobal
    /\ \A t \in Targets : Size(localBreakpoints[t]) <= MaxLocal

\* ====================================================================
\* dbgcomm.c: the rendezvous of proxy and target over the target slots
\* ====================================================================
DBGCOMM_IDLE                == 0
DBGCOMM_LISTENING_FOR_PROXY == 1
DBGCOMM_PROXY_CONNECTING    == 2
DBGCOMM_CONNECTING_TO_PROXY == 3

NumTargetSlots   == 2            \* slots in shared memory
MaxPort          == 3            \* the TCP/IP stack hands out ports 1..MaxPort
InvalidBackendId == -1
MyBackendId(p)   == 10 + p
EphemeralPorts   == 1..MaxPort
ListenerPort(p)  == 100 + p      \* port of proxy p's dbgcomm_listen_for_target socket
Decoy            == 0            \* a process that is no backend
NoSlot           == -1
NoSock           == [src |-> 0, dst |-> 0, from |-> -1]

Slots == 0..(NumTargetSlots - 1)

InitComm ==
    /\ dbgcomm_slots = [i \in Slots |-> [backendid |-> InvalidBackendId,
                                         status |-> DBGCOMM_IDLE,
                                         pid |-> 0, port |-> 0]]
    /\ boundPorts = {}
    /\ conns      = EmptyTable
    /\ cpc        = [p \in CommProcs \cup DialProxies |-> "idle"]
    /\ slot       = [p \in CommProcs \cup DialProxies |-> NoSlot]
    /\ localport  = [p \in CommProcs \cup DialProxies |-> 0]
    /\ remoteport = [p \in CommProxies \cup DialProxies |-> 0]
    /\ sock       = [p \in CommProcs \cup DialProxies |-> NoSock]
    /\ targetPid  = [p \in CommProxies \cup DialProxies |-> 0]

\* the smallest index of S, or NoSlot
FirstOf(S) == IF S = {} THEN NoSlot ELSE CHOOSE i \in S : \A j \in S : i <= j
\* findFreeTargetSlot that hands out slot 0 when no slot is free
findFreeTargetSlot_first(slots, me) ==
    LET free == {i \in Slots : \/ slots[i].backendid = InvalidBackendId
                               \/ slots[i].backendid = MyBackendId(me)}
    IN  IF free = {} THEN 0 ELSE FirstOf(free)

findFreeTargetSlot(slots, me) ==
    FirstOf({i \in Slots : \/ slots[i].backendid = InvalidBackendId
                           \/ slots[i].backendid = MyBackendId(me)})

findTargetSlot(slots, backendid) ==
    FirstOf({i \in Slots : slots[i].backendid = backendid})

Conn(src, dst, from) == [src |-> src, dst |-> dst, from |-> from]

Pending(port) == {c \in DOMAIN conns : c.dst = port /\ conns[c] = "pending"}

\* ------------------------------------------------ dbgcomm_listen_for_proxy
\* socket, bind, listen, then the slot is taken under the lock
listen_for_proxy_begin(t, port) ==
    LET i == findFreeTargetSlot(dbgcomm_slots, t)
    IN  /\ cpc[t] = "idle"
        /\ port \in EphemeralPorts \ boundPorts
        /\ IF i = NoSlot
           THEN \* closesocket, return -1
                UNCHANGED commvars
           ELSE /\ dbgcomm_slots' = [dbgcomm_slots EXCEPT ![i] =
                       [backendid |-> MyBackendId(t),
                        status    |-> DBGCOMM_LISTENING_FOR_PROXY,
                        pid       |-> t,
                        port      |-> port]]
                /\ boundPorts' = boundPorts \cup {port}
                /\ cpc'        = [cpc EXCEPT ![t] = "accept"]
                /\ slot'       = [slot EXCEPT ![t] = i]
                /\ localport'  = [localport EXCEPT ![t] = port]
                /\ UNCHANGED <<conns, remoteport, sock, targetPid>>

\* the accept loop without the comparison of the remote port
listen_for_proxy_accept_anyPort(t, c) ==
    LET s == dbgcomm_slots[slot[t]]
    IN  /\ cpc[t] = "accept"
        /\ c \in Pending(localport[t])
        /\ IF s.status = DBGCOMM_PROXY_CONNECTING
           THEN /\ dbgcomm_slots' = [dbgcomm_slots EXCEPT ![slot[t]] =
                       [s EXCEPT !.backendid = InvalidBackendId,
                                 !.status = DBGCOMM_IDLE]]
                /\ conns' = [d \in DOMAIN conns |->
                               IF d = c THEN "accepted"
                               ELSE IF d \in Pending(localport[t]) THEN "closed"
                               ELSE conns[d]]
                /\ cpc'  = [cpc EXCEPT ![t] = "attached"]
                /\ sock' = [sock EXCEPT ![t] = c]
           ELSE /\ conns' = [conns EXCEPT ![c] = "closed"]
                /\ UNCHANGED <<dbgcomm_slots, cpc, sock>>
        /\ UNCHANGED <<boundPorts, slot, localport, remoteport, targetPid>>

\* the accept loop without the test of the slot's status
listen_for_proxy_accept_anyStatus(t, c) ==
    LET s == dbgcomm_slots[slot[t]]
    IN  /\ cpc[t] = "accept"
        /\ c \in Pending(localport[t])
        /\ IF s.status = DBGCOMM_LISTENING_FOR_PROXY
              \/ (s.status = DBGCOMM_PROXY_CONNECTING /\ s.port = c.src)
           THEN /\ dbgcomm_slots' = [dbgcomm_slots EXCEPT ![slot[t]] =
                       [s EXCEPT !.backendid = InvalidBackendId,
                                 !.status = DBGCOMM_IDLE]]
                /\ conns' = [d \in DOMAIN conns |->
                               IF d = c THEN "accepted"
                               ELSE IF d \in Pending(localport[t]) THEN "closed"
                               ELSE conns[d]]
                /\ cpc'  = [cpc EXCEPT ![t] = "attached"]
                /\ sock' = [sock EXCEPT ![t] = c]
           ELSE /\ conns' = [conns EXCEPT ![c] = "closed"]
                /\ UNCHANGED <<dbgcomm_slots, cpc, sock>>
        /\ UNCHANGED <<boundPorts, slot, localport, remoteport, targetPid>>

\* one turn of the accept loop: accept() returns connection c, which is
\* authenticated against the slot under the lock
listen_for_proxy_accept(t, c) ==
    LET s == dbgcomm_slots[slot[t]]
    IN  /\ cpc[t] = "accept"
        /\ c \in Pending(localport[t])
        /\ IF s.status = DBGCOMM_PROXY_CONNECTING /\ s.port = c.src
           THEN /\ dbgcomm_slots' = [dbgcomm_slots EXCEPT ![slot[t]] =
                       [s EXCEPT !.backendid = InvalidBackendId,
                                 !.status = DBGCOMM_IDLE]]
                \* closesocket(sockfd): what still waits on the listener is reset
                /\ conns' = [d \in DOMAIN conns |->
                               IF d = c THEN "accepted"
                               ELSE IF d \in Pending(localport[t]) THEN "closed"
                               ELSE conns[d]]
                /\ cpc'  = [cpc EXCEPT ![t] = "attached"]
                /\ sock' = [sock EXCEPT ![t] = c]
           ELSE /\ conns' = [conns EXCEPT ![c] = "closed"]
                /\ UNCHANGED <<dbgcomm_slots, cpc, sock>>
        /\ UNCHANGED <<boundPorts, slot, localport, remoteport, targetPid>>

\* ----------------------------------------------- dbgcomm_connect_to_target
\* dbgcomm_connect_to_target that does not post its local port in the slot
connect_to_target_begin_noPort(p, targetBackend, port) ==
    LET i == findTargetSlot(dbgcomm_slots, targetBackend)
    IN  /\ cpc[p] = "idle"
        /\ port \in EphemeralPorts \ boundPorts
        /\ IF i = NoSlot \/ dbgcomm_slots[i].status # DBGCOMM_LISTENING_FOR_PROXY
           THEN UNCHANGED commvars
           ELSE /\ dbgcomm_slots' = [dbgcomm_slots EXCEPT ![i] =
                       [@ EXCEPT !.status = DBGCOMM_PROXY_CONNECTING]]
                /\ remoteport' = [remoteport EXCEPT ![p] = dbgcomm_slots[i].port]
                /\ boundPorts' = boundPorts \cup {port}
                /\ cpc'        = [cpc EXCEPT ![p] = "connect"]
                /\ slot'       = [slot EXCEPT ![p] = i]
                /\ localport'  = [localport EXCEPT ![p] = port]
                /\ UNCHANGED <<conns, sock, targetPid>>

\* dbgcomm_connect_to_target that does not test the status of the slot
connect_to_target_begin_anyStatus(p, targetBackend, port) ==
    LET i == findTargetSlot(dbgcomm_slots, targetBackend)
    IN  /\ cpc[p] = "idle"
        /\ port \in EphemeralPorts \ boundPorts
        /\ IF i = NoSlot
           THEN UNCHANGED commvars
           ELSE /\ dbgcomm_slots' = [dbgcomm_slots EXCEPT ![i] =
                       [@ EXCEPT !.port = port,
                                 !.status = DBGCOMM_PROXY_CONNECTING]]
                /\ remoteport' = [remoteport EXCEPT ![p] = dbgcomm_slots[i].port]
                /\ boundPorts' = boundPorts \cup {port}
                /\ cpc'        = [cpc EXCEPT ![p] = "connect"]
                /\ slot'       = [slot EXCEPT ![p] = i]
                /\ localport'  = [localport EXCEPT ![p] = port]
                /\ UNCHANGED <<conns, sock, targetPid>>

\* socket, bind, then under the lock: find the slot of targetBackend and
\* post the local port in it
connect_to_target_begin(p, targetBackend, port) ==
    LET i == findTargetSlot(dbgcomm_slots, targetBackend)
    IN  /\ cpc[p] = "idle"
        /\ port \in EphemeralPorts \ boundPorts
        /\ IF i = NoSlot \/ dbgcomm_slots[i].status # DBGCOMM_LISTENING_FOR_PROXY
           THEN \* closesocket, ereport(ERROR)
                UNCHANGED commvars
           ELSE /\ dbgcomm_slots' = [dbgcomm_slots EXCEPT ![i] =
                       [@ EXCEPT !.port = port,
                                 !.status = DBGCOMM_PROXY_CONNECTING]]
                /\ remoteport' = [remoteport EXCEPT ![p] = dbgcomm_slots[i].port]
                /\ boundPorts' = boundPorts \cup {port}
                /\ cpc'        = [cpc EXCEPT ![p] = "connect"]
                /\ slot'       = [slot EXCEPT ![p] = i]
                /\ localport'  = [localport EXCEPT ![p] = port]
                /\ UNCHANGED <<conns, sock, targetPid>>

\* connect() to the port read from the slot; on failure ereport(ERROR),
\* and the slot is left as it is
connect_to_target_connect(p, ok) ==
    LET c == Conn(localport[p], remoteport[p], p)
    IN  /\ cpc[p] = "connect"
        /\ IF ok
           THEN /\ conns' = HashStore(conns, c, "pending")
                /\ cpc'   = [cpc EXCEPT ![p] = "attached"]
                /\ sock'  = [sock EXCEPT ![p] = c]
                /\ UNCHANGED <<boundPorts, localport>>
           ELSE /\ cpc'        = [cpc EXCEPT ![p] = "idle"]
                /\ boundPorts' = boundPorts \ {localport[p]}
                /\ localport'  = [localport EXCEPT ![p] = 0]
                /\ UNCHANGED <<conns, sock>>
        /\ slot'       = [slot EXCEPT ![p] = NoSlot]
        /\ remoteport' = [remoteport EXCEPT ![p] = 0]
        /\ UNCHANGED <<dbgcomm_slots, targetPid>>

\* ------------------------------------------------ dbgcomm_connect_to_proxy
\* socket, bind, then the slot is taken under the lock
connect_to_proxy_begin(t, port) ==
    LET i == findFreeTargetSlot(dbgcomm_slots, t)
    IN  /\ cpc[t] = "idle"
        /\ port \in EphemeralPorts \ boundPorts
        /\ IF i = NoSlot
           THEN \* closesocket, return -1
                UNCHANGED commvars
           ELSE /\ dbgcomm_slots' = [dbgcomm_slots EXCEPT ![i] =
                       [backendid |-> MyBackendId(t),
                        status    |-> DBGCOMM_CONNECTING_TO_PROXY,
                        pid       |-> t,
                        port      |-> port]]
                /\ boundPorts' = boundPorts \cup {port}
                /\ cpc'        = [cpc EXCEPT ![t] = "dial"]
                /\ slot'       = [slot EXCEPT ![t] = i]
                /\ localport'  = [localport EXCEPT ![t] = port]
                /\ UNCHANGED <<conns, remoteport, sock, targetPid>>

\* connect() to proxyPort; on failure the slot is reset under the lock
connect_to_proxy_connect(t, proxyPort, ok) ==
    LET c == Conn(localport[t], proxyPort, t)
    IN  /\ cpc[t] = "dial"
        /\ IF ok
           THEN /\ conns' = HashStore(conns, c, "pending")
                /\ cpc'   = [cpc EXCEPT ![t] = "attached"]
                /\ sock'  = [sock EXCEPT ![t] = c]
                /\ UNCHANGED <<dbgcomm_slots, boundPorts, localport>>
           ELSE /\ dbgcomm_slots' = [dbgcomm_slots EXCEPT ![slot[t]] =
                       [@ EXCEPT !.status = DBGCOMM_IDLE,
                                 !.backendid = InvalidBackendId,
                                 !.port = 0]]
                /\ cpc'        = [cpc EXCEPT ![t] = "idle"]
                /\ boundPorts' = boundPorts \ {localport[t]}
                /\ localport'  = [localport EXCEPT ![t] = 0]
                /\ UNCHANGED <<conns, sock>>
        /\ slot' = [slot EXCEPT ![t] = NoSlot]
        /\ UNCHANGED <<remoteport, targetPid>>

\* --------------------------------------------------- dbgcomm_accept_target
\* the proxy starts waiting on its listener socket; the caller's targetPid
\* is a fresh local variable
accept_target_begin(p) ==
    /\ cpc[p] = "idle"
    /\ cpc' = [cpc EXCEPT ![p] = "wait"]
    /\ targetPid' = [targetPid EXCEPT ![p] = 0]
    /\ UNCHANGED <<dbgcomm_slots, boundPorts, conns, slot, localport,
                   remoteport, sock>>

\* the scan of the slots without the comparison of the port
MatchingSlot_anyPort(slots, src) ==
    FirstOf({i \in Slots : slots[i].status = DBGCOMM_CONNECTING_TO_PROXY})

\* the slot a connection from port src authenticates against, or NoSlot
MatchingSlot(slots, src) ==
    FirstOf({i \in Slots : /\ slots[i].status = DBGCOMM_CONNECTING_TO_PROXY
                           /\ slots[i].port = src})

\* one turn of the loop: accept() returns connection c, and the slots are
\* scanned under the lock for its source port
accept_target_accept(p, c) ==
    LET i == MatchingSlot(dbgcomm_slots, c.src)
    IN  /\ cpc[p] = "wait"
        /\ c \in Pending(ListenerPort(p))
        /\ IF i # NoSlot
           THEN /\ targetPid' = [targetPid EXCEPT ![p] = dbgcomm_slots[i].pid]
                /\ dbgcomm_slots' = [dbgcomm_slots EXCEPT ![i].status = DBGCOMM_IDLE]
                /\ conns' = [conns EXCEPT ![c] = "accepted"]
                /\ cpc'   = [cpc EXCEPT ![p] = "attached"]
                /\ sock'  = [sock EXCEPT ![p] = c]
           ELSE /\ conns' = [conns EXCEPT ![c] = "closed"]
                /\ UNCHANGED <<dbgcomm_slots, cpc, sock, targetPid>>
        /\ UNCHANGED <<boundPorts, slot, localport, remoteport>>

\* CHECK_FOR_INTERRUPTS() in the wait loop: a cancel request ends the wait
accept_target_cancel(p) ==
    /\ cpc[p] = "wait"
    /\ cpc' = [cpc EXCEPT ![p] = "idle"]
    /\ UNCHANGED <<dbgcomm_slots, boundPorts, conns, slot, localport,
                   remoteport, sock, targetPid>>

\* ------------------------------------------------------------ environment
\* the backend closes the socket a routine returned: the debugging session
\* is over, the connection is gone and its port is free again
close_socket(p) ==
    /\ cpc[p] = "attached"
    /\ conns' = [d \in (DOMAIN conns) \ {sock[p]} |-> conns[d]]
    /\ boundPorts' = boundPorts \ {localport[p]}
    /\ cpc'       = [cpc EXCEPT ![p] = "idle"]
    /\ sock'      = [sock EXCEPT ![p] = NoSock]
    /\ localport' = [localport EXCEPT ![p] = 0]
    /\ slot'      = [slot EXCEPT ![p] = NoSlot]
    /\ UNCHANGED <<dbgcomm_slots, remoteport, targetPid>>

\* a process that is no backend binds a port and connects to a listener
decoy_connect(src, dst) ==
    /\ src \in EphemeralPorts \ boundPorts
    /\ \/ \E t \in CommTargets : cpc[t] = "accept" /\ dst = localport[t]
       \/ \E p \in CommProxies : dst = ListenerPort(p)
    /\ \A c \in DOMAIN conns : c.from # Decoy
    /\ conns' = HashStore(conns, Conn(src, dst, Decoy), "pending")
    /\ boundPorts' = boundPorts \cup {src}
    /\ UNCHANGED <<dbgcomm_slots, cpc, slot, localport, remoteport, sock,
                   targetPid>>

\* that process closes its socket
decoy_close(c) ==
    /\ c \in DOMAIN conns
    /\ c.from = Decoy
    /\ \A p \in CommProcs : sock[p] # c
    /\ conns' = [d \in (DOMAIN conns) \ {c} |-> conns[d]]
    /\ boundPorts' = boundPorts \ {c.src}
    /\ UNCHANGED <<dbgcomm_slots, cpc, slot, localport, remoteport, sock,
                   targetPid>>

NextComm ==
    \/ \E t \in CommTargets, port \in EphemeralPorts : listen_for_proxy_begin(t, port) /\ UNCHANGED offComm
    \/ \E t \in CommTargets : \E c \in DOMAIN conns : listen_for_proxy_accept(t, c) /\ UNCHANGED offComm
    \/ \E p \in CommProxies, t \in CommTargets, port \in EphemeralPorts :
          connect_to_target_begin(p, MyBackendId(t), port) /\ UNCHANGED offComm
    \/ \E p \in CommProxies, ok \in BOOLEAN : connect_to_target_connect(p, ok) /\ UNCHANGED offComm
    \/ \E t \in CommTargets, port \in EphemeralPorts : connect_to_proxy_begin(t, port) /\ UNCHANGED offComm
    \/ \E t \in CommTargets, p \in CommProxies, ok \in BOOLEAN :
          connect_to_proxy_connect(t, ListenerPort(p), ok) /\ UNCHANGED offComm
    \/ \E p \in CommProxies : accept_target_begin(p) /\ UNCHANGED offComm
    \/ \E p \in CommProxies : \E c \in DOMAIN conns : accept_target_accept(p, c) /\ UNCHANGED offComm
    \/ \E p \in CommProxies : accept_target_cancel(p) /\ UNCHANGED offComm
    \/ \E p \in CommProcs : close_socket(p) /\ UNCHANGED offComm
    \/ \E src \in EphemeralPorts, dst \in EphemeralPorts \cup {ListenerPort(p) : p \in CommProxies} :
          decoy_connect(src, dst) /\ UNCHANGED offComm
    \/ \E c \in DOMAIN conns : decoy_close(c) /\ UNCHANGED offComm

\* ====================================================================
\* plugin_debugger.c: the statement hook dbg_newstmt of a target, step by
\* step.  A target is outside the hook ("exec": the executor runs the
\* statement), blocked in accept() inside connectAsServer ("server"), about
\* to connect inside connectAsClient ("client"), or blocked in dbg_read_str
\* inside the command loop ("command").
\* ====================================================================
NoBkpt == [dst |-> NULL, scope |-> BP_LOCAL]

InitStmt ==
    /\ spc         = [t \in StmtTargets |-> "exec"]
    /\ curFunc     = [t \in StmtTargets |-> 0]
    /\ curLine     = [t \in StmtTargets |-> 0]
    /\ plugin_info = [t \in StmtTargets |-> FALSE]
    /\ stepping    = [t \in StmtTargets |-> FALSE]
    /\ bkpt        = [t \in StmtTargets |-> NoBkpt]
    /\ accepting   = [p \in Proxies |-> FALSE]

tables == <<globalBreakpoints, globalBreakCounts, localBreakpoints,
            localBreakCounts>>
cleanupvars == <<breakpointLock, pc, cleanupKey, cleanupCnt>>

\* dbg_startup: the executor starts an invocation of function f
dbg_startup(t, f) ==
    /\ spc[t] = "exec"
    /\ curFunc' = [curFunc EXCEPT ![t] = f]
    /\ curLine' = [curLine EXCEPT ![t] = 0]
    /\ plugin_info' = [plugin_info EXCEPT ![t] =
                          breakpointsForFunction(t, f) \/ step_into_next_func[t]]
    /\ stepping' = [stepping EXCEPT ![t] = FALSE]
    /\ UNCHANGED <<spc, bkpt, tables, cleanupvars, client_w, step_into_next_func>>

\* the branch of attach_to_proxy's failure without the BreakpointDelete
attach_failed_keepBreakpoint(t, b) ==
    /\ UNCHANGED tables
    /\ plugin_info' = [plugin_info EXCEPT ![t] = FALSE]
    /\ stepping'    = [stepping EXCEPT ![t] = TRUE]
    /\ client_w'    = [client_w EXCEPT ![t] = 0]
    /\ spc'         = [spc EXCEPT ![t] = "exec"]
    /\ bkpt'        = [bkpt EXCEPT ![t] = NoBkpt]

\* dbg_newstmt, the branch taken when attach_to_proxy returns FALSE:
\* BreakpointDelete(breakpointScope, key), plugin_info = NULL, client_w = 0.
\* The context is freed with the stepping = TRUE stored at the test in it.
attach_failed(t, b) ==
    /\ IF b.dst = NULL
       THEN UNCHANGED tables
       ELSE /\ b.scope = BP_GLOBAL => LockFree
            /\ StoreScope(b.scope, t,
                  BreakpointDelete(getBreakpointHash(b.scope, t),
                                   getBreakCountHash(b.scope, t),
                                   b.dst.key))
    /\ plugin_info' = [plugin_info EXCEPT ![t] = FALSE]
    /\ stepping'    = [stepping EXCEPT ![t] = TRUE]
    /\ client_w'    = [client_w EXCEPT ![t] = 0]
    /\ spc'         = [spc EXCEPT ![t] = "exec"]
    /\ bkpt'        = [bkpt EXCEPT ![t] = NoBkpt]

\* dbg_newstmt from the test `stepping || breakAtThisLine(..)' up to the
\* point where the backend returns or blocks.  cw and stp are client_w and
\* dbg_info->stepping on arrival at the test, line is the line looked up.
newstmt_from_test(t, line, cw, stp) ==
    LET b == IF stp THEN [hit |-> TRUE, dst |-> NULL, scope |-> BP_LOCAL]
                    ELSE breakAtThisLine(t, curFunc[t], line)
        bk == [dst |-> b.dst, scope |-> b.scope]
    IN  IF ~b.hit
        THEN \* return: the statement executes
             /\ spc'      = [spc EXCEPT ![t] = "exec"]
             /\ stepping' = [stepping EXCEPT ![t] = FALSE]
             /\ client_w' = [client_w EXCEPT ![t] = cw]
             /\ bkpt'     = [bkpt EXCEPT ![t] = NoBkpt]
             /\ UNCHANGED <<plugin_info, step_into_next_func, tables>>
        ELSE /\ step_into_next_func' = [step_into_next_func EXCEPT ![t] = FALSE]
             /\ IF cw # 0
                THEN \* attach_to_proxy: already connected; the command loop
                     /\ spc'      = [spc EXCEPT ![t] = "command"]
                     /\ stepping' = [stepping EXCEPT ![t] = TRUE]
                     /\ client_w' = [client_w EXCEPT ![t] = cw]
                     /\ bkpt'     = [bkpt EXCEPT ![t] = bk]
                     /\ UNCHANGED <<plugin_info, tables>>
                ELSE IF b.dst = NULL
                THEN \* attach_to_proxy(NULL) without a connection: FALSE
                     attach_failed(t, bk)
                ELSE \* connectAsServer for proxyPort -1, else connectAsClient
                     /\ spc' = [spc EXCEPT ![t] =
                                   IF b.dst.data.proxyPort = NoPort
                                   THEN "server" ELSE "client"]
                     /\ stepping' = [stepping EXCEPT ![t] = TRUE]
                     /\ client_w' = [client_w EXCEPT ![t] = 0]
                     /\ bkpt'     = [bkpt EXCEPT ![t] = bk]
                     /\ UNCHANGED <<plugin_info, tables>>

\* the executor calls dbg_newstmt for the next statement of the invocation:
\* the first statement is looked up as line -1, the others by their line
stmt_begin(t, line) ==
    /\ spc[t] = "exec"
    /\ curFunc[t] # 0
    /\ (line = EntryLine) <=> (curLine[t] = 0)
    /\ curLine' = [curLine EXCEPT ![t] = line]
    /\ UNCHANGED <<curFunc, cleanupvars>>
    /\ IF ~plugin_info[t]
       THEN UNCHANGED <<spc, plugin_info, stepping, bkpt, tables, client_w,
                        step_into_next_func>>
       ELSE newstmt_from_test(t, line, client_w[t], stepping[t])

\* connectAsServer: accept() returns; ok: a proxy connected and authenticated
connectAsServer(t, ok) ==
    /\ spc[t] = "server"
    /\ UNCHANGED <<curFunc, curLine, cleanupvars, step_into_next_func>>
    /\ IF ok
       THEN /\ client_w' = [client_w EXCEPT ![t] = 1]
            /\ spc'      = [spc EXCEPT ![t] = "command"]
            /\ UNCHANGED <<plugin_info, stepping, bkpt, tables>>
       ELSE attach_failed(t, bkpt[t])

\* connectAsClient(breakpoint): connect() to breakpoint->data.proxyPort, the
\* handshake, and BreakpointBusySession(breakpoint->data.proxyPid).  The
\* handshake ends when the proxy, inside pldbg_wait_for_target, accepts the
\* connection and answers; until then the target waits in getBool.
connectAsClient(t, ok) ==
    /\ spc[t] = "client"
    /\ UNCHANGED <<curFunc, curLine, cleanupvars, step_into_next_func>>
    /\ IF ok
       THEN /\ accepting[bkpt[t].dst.data.proxyPid]
            /\ accepting' = [accepting EXCEPT ![bkpt[t].dst.data.proxyPid] = FALSE]
            /\ client_w' = [client_w EXCEPT ![t] = 1]
            /\ spc'      = [spc EXCEPT ![t] = "command"]
            /\ BreakpointBusySession(t, bkpt[t].dst.data.proxyPid)
            /\ UNCHANGED <<plugin_info, stepping, bkpt>>
       ELSE attach_failed(t, bkpt[t]) /\ UNCHANGED accepting

\* pldbg_wait_for_target: BreakpointFreeSession(MyProc->pid), then select
\* and accept on the listener
stmt_wait_for_target(p) ==
    /\ pldbg_wait_for_target(p)
    /\ accepting' = [accepting EXCEPT ![p] = TRUE]
    /\ UNCHANGED <<spc, curFunc, curLine, plugin_info, stepping, bkpt>>

\* the command loop reads PLDBG_CONTINUE
stmt_continue(t) ==
    /\ spc[t] = "command"
    /\ stepping' = [stepping EXCEPT ![t] = FALSE]
    /\ spc'      = [spc EXCEPT ![t] = "exec"]
    /\ bkpt'     = [bkpt EXCEPT ![t] = NoBkpt]
    /\ UNCHANGED <<curFunc, curLine, plugin_info, tables, cleanupvars,
                   client_w, step_into_next_func>>

\* the command loop reads PLDBG_STEP_OVER
stmt_step_over(t) ==
    /\ spc[t] = "command"
    /\ spc'  = [spc EXCEPT ![t] = "exec"]
    /\ bkpt' = [bkpt EXCEPT ![t] = NoBkpt]
    /\ UNCHANGED <<curFunc, curLine, plugin_info, stepping, tables,
                   cleanupvars, client_w, step_into_next_func>>

\* the command loop reads PLDBG_STEP_INTO
stmt_step_into(t) ==
    /\ spc[t] = "command"
    /\ step_into_next_func' = [step_into_next_func EXCEPT ![t] = TRUE]
    /\ spc'  = [spc EXCEPT ![t] = "exec"]
    /\ bkpt' = [bkpt EXCEPT ![t] = NoBkpt]
    /\ UNCHANGED <<curFunc, curLine, plugin_info, stepping, tables,
                   cleanupvars, client_w>>

\* a send or recv of the command loop fails: handle_socket_error jumps to
\* client_lost.m_savepoint, whose block sets client_w = 0 and stepping =
\* FALSE and then falls through to the test of the same statement
stmt_client_lost(t) ==
    /\ spc[t] = "command"
    /\ UNCHANGED <<curFunc, curLine, cleanupvars>>
    /\ newstmt_from_test(t, curLine[t], 0, FALSE)

\* the commands that set and clear LOCAL breakpoints, and pldbg_oid_debug
stmt_set_breakpoint(t, f, l, b) ==
    /\ spc[t] = "command" \/ (spc[t] = "exec" /\ l = EntryLine)
    /\ addLocalBreakpoint(t, f, l, b)
    /\ UNCHANGED stmtvars

stmt_clear_breakpoint(t, f, l) ==
    /\ spc[t] = "command"
    /\ clearBreakpoint(t, f, l)
    /\ UNCHANGED stmtvars

\* the scenario of the statement hook: both targets run function 1; target 3
\* has LOCAL breakpoints on it, proxy 1 sets GLOBAL breakpoints on it
StmtProxies == {1}
StmtFuncs   == {1}

NextStmt ==
    \/ \E t \in StmtTargets, f \in StmtFuncs : dbg_startup(t, f) /\ UNCHANGED <<offStmt, accepting>>
    \/ \E t \in StmtTargets, l \in Lines : stmt_begin(t, l) /\ UNCHANGED <<offStmt, accepting>>
    \/ \E t \in StmtTargets, ok \in BOOLEAN : connectAsServer(t, ok) /\ UNCHANGED <<offStmt, accepting>>
    \/ \E t \in StmtTargets, ok \in BOOLEAN : connectAsClient(t, ok) /\ UNCHANGED offStmt
    \/ \E t \in StmtTargets : stmt_continue(t) /\ UNCHANGED <<offStmt, accepting>>
    \/ \E t \in StmtTargets : stmt_step_over(t) /\ UNCHANGED <<offStmt, accepting>>
    \/ \E t \in StmtTargets : stmt_step_into(t) /\ UNCHANGED <<offStmt, accepting>>
    \/ \E t \in StmtTargets : stmt_client_lost(t) /\ UNCHANGED <<offStmt, accepting>>
    \/ \E t \in Targets, f \in StmtFuncs, l \in Lines, b \in BOOLEAN :
          stmt_set_breakpoint(t, f, l, b) /\ UNCHANGED offStmt
    \/ \E t \in Targets, f \in StmtFuncs, l \in Lines :
          stmt_clear_breakpoint(t, f, l) /\ UNCHANGED offStmt
    \/ \E p \in StmtProxies, f \in StmtFuncs, l \in Lines, t \in TargetPids, b \in BOOLEAN :
          pldbg_set_global_breakpoint(p, f, l, t, b) /\ UNCHANGED <<offStmt, stmtvars>>
    \/ \E p \in StmtProxies : stmt_wait_for_target(p) /\ UNCHANGED offStmt

\* ====================================================================
\* the wire codec: sendString / dbg_send on one end of a socket, getNString
\* / dbg_read_str on the other, over readn / writen (plugin_debugger.c
\* 325-412, 546-592; pldbgapi.c 1260-1499)
\* ====================================================================
MaxStrLen == 2        \* length of the strings sent
MaxMsgs   == 2        \* strings sent over one connection
MaxEintr  == 1        \* recv calls interrupted by a signal

EINTR == 4
EPIPE == 32

\* the bytes of the strings, and the strings handed to the senders
Chars   == {97, 98}
Strings == UNION {[1..n -> Chars] : n \in 0..MaxStrLen}

\* the two pairs: the target's dbg_send read by the proxy's getNString, and
\* the proxy's sendString read by the target's dbg_read_str
Dirs == {"toProxy", "toTarget"}

\* htonl followed by the bytes in memory order, and ntohl of four bytes
htonl(n) ==
    <<(n \div 16777216) % 256, (n \div 65536) % 256, (n \div 256) % 256, n % 256>>

ntohl(b) == b[1] * 16777216 + b[2] * 65536 + b[3] * 256 + b[4]

\* sendString that sends the terminator too
sendString_withTerminator(src) == htonl(Len(src)) \o src \o <<0>>

\* sendString / dbg_send: the 32-bit length, then the bytes without the
\* terminator
sendString(src) == htonl(Len(src)) \o src

\* what getNString (NULL for length 0) and dbg_read_str (an empty string for
\* length 0) return for a body read into dst
Absent == [null |-> TRUE, str |-> <<>>]
Returned(d, len, dst) ==
    IF d = "toProxy" /\ len = 0 THEN Absent ELSE [null |-> FALSE, str |-> dst]

\* SubSeq with a shorter name
Take(s, k) == SubSeq(s, 1, k)
Drop(s, k) == SubSeq(s, k + 1, Len(s))

\* recv(peer, buffer, ..): the bytes land at dst + pos, dst + pos + 1, ..;
\* a byte stored at dst - 1 is outside the buffer and not part of it
RECURSIVE StoreAt(_, _, _)
StoreAt(dst, pos, bytes) ==
    IF bytes = <<>> THEN dst
    ELSE LET d == IF pos < 0 THEN dst
                  ELSE IF pos < Len(dst)
                  THEN [dst EXCEPT ![pos + 1] = Head(bytes)]
                  ELSE Append(dst, Head(bytes))
         IN  StoreAt(d, pos + 1, Tail(bytes))

InitWire ==
    /\ dir = None
    /\ sent = <<>>
    /\ wbuf = <<>>
    /\ wire = <<>>
    /\ rpc = "idle"
    /\ rlen = 0
    /\ bytesRemaining = 0
    /\ rpos = 0
    /\ rdst = <<>>
    /\ consumed = 0
    /\ delivered = <<>>
    /\ eintr = 0
    /\ partial = FALSE
    /\ oob = FALSE
    /\ lost = None

\* sendString(session, src) (d = "toTarget") or dbg_send(sock, "%s", src)
\* (d = "toProxy") is called; the first call tells which end the writer is
send_begin(d, src) ==
    /\ lost = None
    /\ wbuf = <<>>
    /\ Len(sent) < MaxMsgs
    /\ IF sent = <<>> THEN dir' = d ELSE d = dir /\ dir' = dir
    /\ sent' = Append(sent, src)
    /\ wbuf' = sendString(src)
    /\ UNCHANGED <<wire, rpc, rlen, bytesRemaining, rpos, rdst, consumed,
                   delivered, eintr, partial, oob, lost>>

\* writen / dbg_send: send() takes k bytes
send_some(k) ==
    /\ lost = None
    /\ k \in 1..Len(wbuf)
    /\ wire' = wire \o Take(wbuf, k)
    /\ wbuf' = Drop(wbuf, k)
    /\ UNCHANGED <<dir, sent, rpc, rlen, bytesRemaining, rpos, rdst, consumed,
                   delivered, eintr, partial, oob, lost>>

\* writen / dbg_send: send() returns -1 with errno e.  handle_socket_error
\* (and the ereport of pldbgapi.c's writen) gives the connection up for
\* every errno, EINTR included
send_fails(e) ==
    /\ lost = None
    /\ wbuf # <<>>
    /\ e = EINTR => eintr < MaxEintr
    /\ eintr' = IF e = EINTR THEN eintr + 1 ELSE eintr
    /\ lost' = IF e = EINTR THEN "interrupted send" ELSE "send"
    /\ UNCHANGED <<dir, sent, wbuf, wire, rpc, rlen, bytesRemaining, rpos,
                   rdst, consumed, delivered, partial, oob>>

\* getNString / dbg_read_str is called: readn(sock, &netVal, 4) starts
read_begin ==
    /\ lost = None
    /\ rpc = "idle"
    /\ Len(delivered) < MaxMsgs
    /\ rpc' = "len"
    /\ rlen' = 4
    /\ bytesRemaining' = 4
    /\ rpos' = 0
    /\ rdst' = <<>>
    /\ UNCHANGED <<dir, sent, wbuf, wire, consumed, delivered, eintr, partial,
                   oob, lost>>

\* readn: recv() returns k bytes; when the count reaches 0 readn returns and
\* its caller goes on: the length is converted and the body read, or the
\* string is returned
recv_some(k) ==
    LET dst  == StoreAt(rdst, rpos, Take(wire, k))
        rem  == bytesRemaining - k
        len  == ntohl(dst)
    IN  /\ lost = None
        /\ rpc \in {"len", "body"}
        /\ k \in 1..bytesRemaining
        /\ k <= Len(wire)
        /\ wire' = Drop(wire, k)
        /\ consumed' = consumed + k
        /\ partial' = (partial \/ k < bytesRemaining)
        /\ oob' = (oob \/ rpos < 0)
        /\ IF rem > 0
           THEN /\ bytesRemaining' = rem
                /\ rpos' = rpos + k
                /\ rdst' = dst
                /\ UNCHANGED <<rpc, rlen, delivered>>
           ELSE IF rpc = "len" /\ len > 0
           THEN /\ rpc' = "body"
                /\ rlen' = len
                /\ bytesRemaining' = len
                /\ rpos' = 0
                /\ rdst' = <<>>
                /\ UNCHANGED delivered
           ELSE /\ rpc' = "idle"
                /\ rlen' = 0
                /\ bytesRemaining' = 0
                /\ rpos' = 0
                /\ rdst' = <<>>
                /\ delivered' = Append(delivered,
                                   IF rpc = "len" THEN Returned(dir, 0, <<>>)
                                                  ELSE Returned(dir, rlen, dst))
        /\ UNCHANGED <<dir, sent, wbuf, eintr, lost>>

\* readn: recv() returns -1 with errno EINTR.  handle_socket_error is not
\* called, and bytesRemaining -= bytesRead; buffer += bytesRead run with
\* bytesRead = -1
recv_eintr ==
    /\ lost = None
    /\ rpc \in {"len", "body"}
    /\ eintr < MaxEintr
    /\ eintr' = eintr + 1
    /\ bytesRemaining' = bytesRemaining + 1
    /\ rpos' = rpos - 1
    /\ UNCHANGED <<dir, sent, wbuf, wire, rpc, rlen, rdst, consumed, delivered,
                   partial, oob, lost>>

\* readn: recv() returns 0 or -1 with another errno: handle_socket_error
recv_fails ==
    /\ lost = None
    /\ rpc \in {"len", "body"}
    /\ lost' = "recv"
    /\ UNCHANGED <<dir, sent, wbuf, wire, rpc, rlen, bytesRemaining, rpos,
                   rdst, consumed, delivered, eintr, partial, oob>>

NextWire ==
    \/ \E d \in Dirs, src \in Strings : send_begin(d, src) /\ UNCHANGED offWire
    \/ \E k \in 1..(4 + MaxStrLen) : send_some(k) /\ UNCHANGED offWire
    \/ \E e \in {EINTR, EPIPE} : send_fails(e) /\ UNCHANGED offWire
    \/ read_begin /\ UNCHANGED offWire
    \/ \E k \in 1..(4 + MaxStrLen + MaxEintr) : recv_some(k) /\ UNCHANGED offWire
    \/ recv_eintr /\ UNCHANGED offWire
    \/ recv_fails /\ UNCHANGED offWire

\* ====================================================================
\* pldbgapi.c: the session handles of a proxy backend (addSession,
\* findSession, defaultSession)
\* ====================================================================
HandleBits == 3       \* width of sessionHandle (int32 in the source)

\* the values of a sessionHandle, and ++ on it: two's complement, the
\* counter wraps from the largest value to the smallest
HandleMod   == 2 ^ HandleBits
HandleMin   == 0 - (HandleMod \div 2)
HandleMax   == (HandleMod \div 2) - 1
Handles     == HandleMin..HandleMax
Increment(h) == ((h + 1 - HandleMin) % HandleMod) + HandleMin

\* the debugSession objects a backend allocates: enough for the counter to
\* come round (sessions are numbered from 1; 0 stands for the NULL pointer)
MaxSessions == HandleMod + 1

NoCall == [op |-> None, handle |-> 0]

InitSess ==
    /\ nextHandle = 0
    /\ sessionHash = EmptyTable
    /\ mostRecentSession = 0
    /\ allocated = 0
    /\ lastCall = NoCall
    /\ ret = 0
    /\ raised = FALSE

\* findSession(handle): the session, or NULL
findSession(hash, handle) ==
    IF handle \in DOMAIN hash THEN hash[handle] ELSE 0

\* addSession(session): handle = ++nextHandle; HASH_ENTER; the entry takes
\* the session whether or not the handle was in the table
addSession(hash, next, session) ==
    LET handle == Increment(next)
    IN  [handle |-> handle, next |-> handle,
         hash |-> HashStore(hash, handle, session)]

\* defaultSession that remembers the session on every path
defaultSession_noError(hash, recent, handle) ==
    IF handle = 0
    THEN [session |-> recent, recent |-> recent, error |-> FALSE]
    ELSE [session |-> findSession(hash, handle),
          recent  |-> findSession(hash, handle), error |-> FALSE]

\* defaultSession(handle): the session, the new mostRecentSession, and
\* whether 'invalid session handle' was raised
defaultSession(hash, recent, handle) ==
    IF handle = 0
    THEN IF recent = 0
         THEN [session |-> 0, recent |-> recent, error |-> TRUE]
         ELSE [session |-> recent, recent |-> recent, error |-> FALSE]
    ELSE LET session == findSession(hash, handle)
         IN  IF session = 0
             THEN [session |-> 0, recent |-> recent, error |-> TRUE]
             ELSE [session |-> session, recent |-> session, error |-> FALSE]

\* pldbg_create_listener: a new session becomes the most recent one and
\* gets a handle
pldbg_create_listener ==
    LET session == allocated + 1
        r == addSession(sessionHash, nextHandle, session)
    IN  /\ allocated < MaxSessions
        /\ allocated' = session
        /\ mostRecentSession' = session
        /\ sessionHash' = r.hash
        /\ nextHandle' = r.next
        /\ ret' = r.handle
        /\ raised' = FALSE
        /\ lastCall' = [op |-> "create_listener", handle |-> 0]

\* pldbg_attach_to_port: the same when the connection and the handshake
\* succeed (ok); otherwise an error is raised before the session is
\* remembered or given a handle
pldbg_attach_to_port(ok) ==
    LET session == allocated + 1
        r == addSession(sessionHash, nextHandle, session)
    IN  /\ allocated < MaxSessions
        /\ lastCall' = [op |-> "attach_to_port", handle |-> 0]
        /\ IF ok
           THEN /\ allocated' = session
                /\ mostRecentSession' = session
                /\ sessionHash' = r.hash
                /\ nextHandle' = r.next
                /\ ret' = r.handle
                /\ raised' = FALSE
           ELSE /\ raised' = TRUE
                /\ ret' = 0
                /\ UNCHANGED <<allocated, mostRecentSession, sessionHash,
                               nextHandle>>

\* any pldbg_ function that starts with defaultSession(PG_GETARG_SESSION(0))
pldbg_call(handle) ==
    LET r == defaultSession(sessionHash, mostRecentSession, handle)
    IN  /\ lastCall' = [op |-> "defaultSession", handle |-> handle]
        /\ mostRecentSession' = r.recent
        /\ ret' = r.session
        /\ raised' = r.error
        /\ UNCHANGED <<allocated, sessionHash, nextHandle>>

\* pldbg_wait_for_target(handle) that accepts a target: defaultSession, and
\* mostRecentSession = session before it returns
sess_wait_for_target(handle) ==
    LET r == defaultSession(sessionHash, mostRecentSession, handle)
    IN  /\ lastCall' = [op |-> "wait_for_target", handle |-> handle]
        /\ mostRecentSession' = IF r.error THEN r.recent ELSE r.session
        /\ ret' = r.session
        /\ raised' = r.error
        /\ UNCHANGED <<allocated, sessionHash, nextHandle>>

NextSess ==
    \/ pldbg_create_listener /\ UNCHANGED offSess
    \/ \E ok \in BOOLEAN : pldbg_attach_to_port(ok) /\ UNCHANGED offSess
    \/ \E handle \in Handles : pldbg_call(handle) /\ UNCHANGED offSess
    \/ \E handle \in Handles : sess_wait_for_target(handle) /\ UNCHANGED offSess

\* ====================================================================
\* plugin_debugger.c: dbg_startup, dbg_newstmt and its command loop in one
\* target, over the PL call stack of the backend.  Every frame (estate)
\* has its own plugin_info and, in it, its own stepping flag; client_w and
\* step_into_next_func belong to the session (per_session_ctx).
\* ====================================================================
MaxDepth == 2         \* frames on the PL call stack at the same time

LoopTarget == 3                  \* pid of the backend whose stack is modelled
StmtKinds  == {"stmt", "block"}  \* cmd_type: PLPGSQL_STMT_BLOCK or any other
NoResume   == [cmd |-> None, depth |-> 0, fresh |-> FALSE, found |-> FALSE]

InitLoop ==
    /\ frames  = <<>>
    /\ lpc     = "exec"
    /\ frame   = 0
    /\ out     = <<>>
    /\ lastCmd = None
    /\ err     = None
    /\ cur     = [kind |-> None, tick |-> 0, lookup |-> FALSE, lineno |-> 0]
    /\ resumed = NoResume

\* the estate dbg_newstmt is called with: the innermost frame
Top == frames[Len(frames)]

SetTop(fs, f) == [fs EXCEPT ![Len(fs)] = f]

\* OID_DEBUG_FUNCTION (plpgsql_oid_debug), called by the client application
\* between two function calls: addLocalBreakpoint(funcOid, -1)
loop_oid_debug(f) ==
    /\ lpc = "exec"
    /\ frames = <<>>
    /\ addLocalBreakpoint(LoopTarget, f, EntryLine, FALSE)
    /\ UNCHANGED loopvars

\* dbg_startup: a statement of the innermost frame (or the client
\* application) calls function f; the new frame gets a context if f has
\* breakpoints or a step-into is pending, and stepping = FALSE in it
loop_startup(f) ==
    /\ lpc = "exec"
    /\ Len(frames) < MaxDepth
    /\ IF frames = <<>> THEN TRUE ELSE Top.line # 0
    /\ frames' = Append(frames,
          [func        |-> f,
           line        |-> 0,
           plugin_info |-> \/ breakpointsForFunction(LoopTarget, f)
                           \/ step_into_next_func[LoopTarget],
           stepping    |-> FALSE])
    /\ err' = None
    /\ UNCHANGED <<lpc, frame, out, lastCmd, cur, resumed, tables, cleanupvars,
                   client_w, step_into_next_func>>

\* the function of the innermost frame returns to its caller
loop_return ==
    /\ lpc = "exec"
    /\ frames # <<>>
    /\ Top.line # 0
    /\ frames' = SubSeq(frames, 1, Len(frames) - 1)
    /\ resumed' = IF resumed.depth = Len(frames)
                  THEN [resumed EXCEPT !.depth = 0] ELSE resumed
    /\ UNCHANGED <<lpc, frame, out, lastCmd, err, cur, tables, cleanupvars,
                   client_w, step_into_next_func>>

\* dbg_newstmt from the test `stepping || breakAtThisLine(..)' on, for the
\* statement `line' of kind `kind' of the innermost frame.  cw and stp are
\* client_w and dbg_info->stepping on arrival at the test, fr is the value
\* of the local `frame', ok the outcome of connectAsServer/connectAsClient.
loop_from_test(line, kind, cw, stp, fr, ok) ==
    LET t  == LoopTarget
        b  == IF stp THEN [hit |-> TRUE, dst |-> NULL, scope |-> BP_LOCAL]
                     ELSE breakAtThisLine(t, Top.func, line)
        at == [Top EXCEPT !.line = line]
    IN  IF ~b.hit
        THEN \* return: the statement executes
             /\ frames'   = SetTop(frames, [at EXCEPT !.stepping = FALSE])
             /\ client_w' = [client_w EXCEPT ![t] = cw]
             /\ lpc'      = "exec"
             /\ frame'    = 0
             /\ out'      = IF lpc = "command" THEN <<>> ELSE out
             /\ lastCmd'  = None
             /\ resumed'  = IF kind = "stmt"
                            THEN [resumed EXCEPT !.fresh = FALSE] ELSE resumed
             /\ UNCHANGED <<step_into_next_func, tables>>
        ELSE /\ step_into_next_func' = [step_into_next_func EXCEPT ![t] = FALSE]
             /\ IF cw # 0 \/ (b.dst # NULL /\ ok)
                THEN \* attach_to_proxy returns TRUE
                     /\ client_w' = [client_w EXCEPT ![t] = 1]
                     /\ IF cw = 0 /\ b.dst.data.proxyPort # NoPort
                        THEN BreakpointBusySession(t, b.dst.data.proxyPid)
                        ELSE UNCHANGED tables
                     /\ frames' = SetTop(frames, [at EXCEPT !.stepping = TRUE])
                     /\ IF kind = "block"
                        THEN \* return at PLPGSQL_STMT_BLOCK
                             /\ lpc'     = "exec"
                             /\ frame'   = 0
                             /\ out'     = IF lpc = "command" THEN <<>> ELSE out
                             /\ lastCmd' = None
                             /\ resumed' = [resumed EXCEPT
                                               !.found = @ \/ b.dst # NULL]
                        ELSE \* send_cur_line, then dbg_read_str
                             /\ lpc'     = "command"
                             /\ frame'   = fr
                             /\ out'     = <<"line">>
                             /\ lastCmd' = None
                             /\ resumed' = NoResume
                ELSE \* attach_to_proxy returns FALSE: BreakpointDelete,
                     \* frame->plugin_info = NULL, client_w = 0, return
                     /\ IF b.dst = NULL
                        THEN UNCHANGED tables
                        ELSE /\ b.scope = BP_GLOBAL => LockFree
                             /\ StoreScope(b.scope, t,
                                   BreakpointDelete(getBreakpointHash(b.scope, t),
                                                    getBreakCountHash(b.scope, t),
                                                    b.dst.key))
                     /\ frames' = [SetTop(frames, [at EXCEPT !.stepping = TRUE])
                                      EXCEPT ![fr].plugin_info = FALSE]
                     /\ client_w' = [client_w EXCEPT ![t] = 0]
                     /\ lpc'      = "exec"
                     /\ frame'    = 0
                     /\ out'      = IF lpc = "command" THEN <<>> ELSE out
                     /\ lastCmd'  = None
                     /\ resumed'  = [resumed EXCEPT
                                       !.fresh = @ /\ kind # "stmt",
                                       !.found = @ \/ b.dst # NULL]

\* stmt->lineno of the first statement of every function body
FirstLineno == 1

\* stmt->lineno of the statement that dbg_newstmt looks up as `line':
\* isFirstStmt(stmt, func) ? -1 : stmt->lineno
LinenoOf(line) == IF line = EntryLine THEN FirstLineno ELSE line

\* dbg_newstmt that goes to the test without a debugger context
loop_newstmt_alwaysTest(line, kind, ok) ==
    /\ lpc = "exec"
    /\ frames # <<>>
    /\ (line = EntryLine) <=> (Top.line = 0)
    /\ cur' = [kind |-> kind, tick |-> 1 - cur.tick, lookup |-> ~Top.stepping,
               lineno |-> LinenoOf(line)]
    /\ UNCHANGED <<cleanupvars, err>>
    /\ loop_from_test(line, kind, client_w[LoopTarget], Top.stepping,
                      Len(frames), ok)

\* the executor calls dbg_newstmt before it executes the next statement of
\* the innermost frame.  The first statement of the body is looked up as
\* line -1.  A statement with lineno 0 (the automatic RETURN) behaves as a
\* block on a line that carries no breakpoint; one with lineno -1 is
\* loop_newstmt_invisible.
loop_newstmt(line, kind, ok) ==
    /\ lpc = "exec"
    /\ frames # <<>>
    /\ (line = EntryLine) <=> (Top.line = 0)
    /\ cur' = [kind |-> kind, tick |-> 1 - cur.tick,
               lookup |-> Top.plugin_info /\ ~Top.stepping,
               lineno |-> LinenoOf(line)]
    /\ UNCHANGED <<cleanupvars, err>>
    /\ IF ~Top.plugin_info
       THEN \* no debugger context: return at once
            /\ frames'  = SetTop(frames, [Top EXCEPT !.line = line])
            /\ resumed' = IF kind = "stmt"
                          THEN [resumed EXCEPT !.fresh = FALSE] ELSE resumed
            /\ UNCHANGED <<lpc, frame, out, lastCmd, tables, client_w,
                           step_into_next_func>>
       ELSE loop_from_test(line, kind, client_w[LoopTarget], Top.stepping,
                           Len(frames), ok)

\* dbg_newstmt for a statement the compiler made up (stmt->lineno == -1):
\* it returns after the test of plugin_info, or after the test of lineno.
\* The frame stays at its last visible statement.
loop_newstmt_invisible ==
    /\ lpc = "exec"
    /\ frames # <<>>
    /\ cur' = [kind |-> "invisible", tick |-> 1 - cur.tick, lookup |-> FALSE,
               lineno |-> -1]
    /\ UNCHANGED <<frames, lpc, frame, out, lastCmd, err, resumed, tables,
                   cleanupvars, client_w, step_into_next_func>>

\* ------------------------------------------------------ the command loop
\* need_more = FALSE: dbg_newstmt returns and the statement executes
Resume(cmd) ==
    /\ lpc'     = "exec"
    /\ frame'   = 0
    /\ out'     = <<>>
    /\ lastCmd' = None
    /\ resumed' = [cmd |-> cmd, depth |-> Len(frames), fresh |-> TRUE,
                    found |-> FALSE]
    /\ UNCHANGED cur

\* a command that answers and leaves need_more TRUE
Answer(tag, msgs) ==
    /\ lastCmd' = tag
    /\ out'     = msgs
    /\ UNCHANGED <<lpc, err, cur, resumed>>

\* the same with a command that also ends the pause
Answer_resume(tag, msgs) ==
    /\ lastCmd' = tag
    /\ out'     = msgs
    /\ lpc'     = "exec"
    /\ UNCHANGED <<err, cur, resumed>>

\* ereport(ERROR, ..) inside the loop: the statement is aborted and the PL
\* stack is unwound; the socket stays as it is
Abort(tag, msgs, e) ==
    /\ lastCmd' = tag
    /\ out'     = msgs
    /\ err'     = e
    /\ frames'  = <<>>
    /\ lpc'     = "exec"
    /\ frame'   = 0
    /\ resumed' = NoResume
    /\ UNCHANGED cur

PLDBG_CONTINUE ==
    /\ lpc = "command"
    /\ frames' = SetTop(frames, [Top EXCEPT !.stepping = FALSE])
    /\ Resume("c")
    /\ UNCHANGED <<err, tables, cleanupvars, client_w, step_into_next_func>>

PLDBG_STEP_INTO ==
    /\ lpc = "command"
    /\ step_into_next_func' = [step_into_next_func EXCEPT ![LoopTarget] = TRUE]
    /\ Resume("s")
    /\ UNCHANGED <<frames, err, tables, cleanupvars, client_w>>

\* a step-over that also asks for the next function to be stepped into
step_over_into ==
    /\ lpc = "command"
    /\ step_into_next_func' = [step_into_next_func EXCEPT ![LoopTarget] = TRUE]
    /\ Resume("o")
    /\ UNCHANGED <<frames, err, tables, cleanupvars, client_w>>

PLDBG_STEP_OVER ==
    /\ lpc = "command"
    /\ Resume("o")
    /\ UNCHANGED <<frames, err, tables, cleanupvars, client_w,
                   step_into_next_func>>

\* setBreakpoint: parseBreakpoint (wf: the argument parses), then
\* addLocalBreakpoint and the reply
PLDBG_SET_BREAKPOINT(f, l, wf) ==
    LET key == BreakpointKey(DbOf(LoopTarget), f, l, LoopTarget)
    IN  /\ lpc = "command"
        /\ IF wf
           THEN /\ addLocalBreakpoint(LoopTarget, f, l, FALSE)
                /\ Answer("b", IF key \in DOMAIN localBreakpoints[LoopTarget]
                               THEN <<"f">> ELSE <<"t">>)
           ELSE /\ Answer("b", <<"f">>)
                /\ UNCHANGED <<tables, cleanupvars, client_w, step_into_next_func>>
        /\ UNCHANGED <<frames, frame>>

\* clearBreakpoint: parseBreakpoint, BreakpointDelete(BP_LOCAL, ..), reply
PLDBG_CLEAR_BREAKPOINT(f, l, wf) ==
    LET key == BreakpointKey(DbOf(LoopTarget), f, l, LoopTarget)
    IN  /\ lpc = "command"
        /\ IF wf
           THEN /\ clearBreakpoint(LoopTarget, f, l)
                /\ Answer("f", IF key \in DOMAIN localBreakpoints[LoopTarget]
                               THEN <<"t">> ELSE <<"f">>)
           ELSE /\ Answer("f", <<"f">>)
                /\ UNCHANGED <<tables, cleanupvars, client_w, step_into_next_func>>
        /\ UNCHANGED <<frames, frame>>

sessionvars == <<tables, cleanupvars, client_w, step_into_next_func>>

\* dbg_printvar: the value, or an error text, as one string
PLDBG_PRINT_VAR ==
    /\ lpc = "command"
    /\ Answer("p", <<"data">>)
    /\ UNCHANGED <<frames, frame, sessionvars>>

\* send_breakpoints: the list, ended by an empty string
PLDBG_LIST_BREAKPOINTS ==
    /\ lpc = "command"
    /\ Answer("l", <<"data">>)
    /\ UNCHANGED <<frames, frame, sessionvars>>

\* send_stack with need_more = FALSE after it
PLDBG_PRINT_STACK_resume ==
    /\ lpc = "command"
    /\ Answer_resume("$", <<"data">>)
    /\ UNCHANGED <<frames, frame, sessionvars>>

\* send_stack: one string per frame, ended by an empty string
PLDBG_PRINT_STACK ==
    /\ lpc = "command"
    /\ Answer("$", <<"data">>)
    /\ UNCHANGED <<frames, frame, sessionvars>>

\* send_vars: the list, ended by an empty string
PLDBG_INFO_VARS ==
    /\ lpc = "command"
    /\ Answer("i", <<"data">>)
    /\ UNCHANGED <<frames, frame, sessionvars>>

\* select_frame(dbg_info, estate, frameNo), counted from the innermost
\* frame: a frame without context gets one (initialize_plugin_info), a
\* frame number that does not exist selects estate; then send_cur_line
PLDBG_SELECT_FRAME(frameNo) ==
    LET i == IF frameNo < Len(frames) THEN Len(frames) - frameNo
                                      ELSE Len(frames)
    IN  /\ lpc = "command"
        /\ frame' = i
        /\ frames' = IF frameNo < Len(frames) /\ ~frames[i].plugin_info
                     THEN [frames EXCEPT ![i].plugin_info = TRUE,
                                         ![i].stepping = FALSE]
                     ELSE frames
        /\ Answer("^", <<"line">>)
        /\ UNCHANGED sessionvars

\* dbg_send_src: findSource raises `cache lookup for proc failed' when the
\* OID of the command names no function (found = FALSE)
PLDBG_LIST(found) ==
    /\ lpc = "command"
    /\ IF found
       THEN /\ Answer("#", <<"data">>)
            /\ UNCHANGED <<frames, frame>>
       ELSE Abort("#", <<>>, "cache lookup failed")
    /\ UNCHANGED sessionvars

\* do_deposit: one boolean reply
PLDBG_DEPOSIT(done) ==
    /\ lpc = "command"
    /\ Answer("d", IF done THEN <<"t">> ELSE <<"f">>)
    /\ UNCHANGED <<frames, frame, sessionvars>>

\* PLDBG_STOP and PLDBG_RESTART: dbg_send "t", then
\* ereport(ERROR, ERRCODE_QUERY_CANCELED)
PLDBG_STOP(tag) ==
    /\ lpc = "command"
    /\ Abort(tag, <<"t">>, "query canceled")
    /\ UNCHANGED sessionvars

\* an unrecognized command handled as PLDBG_CONTINUE
unrecognized_continue ==
    /\ lpc = "command"
    /\ frames' = SetTop(frames, [Top EXCEPT !.stepping = FALSE])
    /\ Answer_resume("?", <<>>)
    /\ UNCHANGED <<frame, sessionvars>>

\* default: elog(WARNING, "Unrecognized message"), and the loop goes on
unrecognized ==
    /\ lpc = "command"
    /\ Answer("?", <<>>)
    /\ UNCHANGED <<frames, frame, sessionvars>>

\* a recv or send of the loop fails: handle_socket_error jumps to
\* client_lost.m_savepoint; the block there sets client_w = 0 and stepping
\* = FALSE and falls through to the test for the same statement.  The local
\* `frame', assigned by PLDBG_SELECT_FRAME after sigsetjmp, is indeterminate
\* after the jump: it holds estate or the selected frame (fr).
loop_client_lost(fr, ok) ==
    /\ lpc = "command"
    /\ fr \in {Len(frames), frame}
    /\ UNCHANGED <<cleanupvars, err, cur>>
    /\ loop_from_test(Top.line, "stmt", 0, FALSE, fr, ok)

Tags == {"x", "r"}

NextLoop ==
    \/ \E f \in Funcs : loop_oid_debug(f) /\ UNCHANGED offLoop
    \/ \E f \in Funcs : loop_startup(f) /\ UNCHANGED offLoop
    \/ loop_return /\ UNCHANGED offLoop
    \/ \E l \in Lines, kind \in StmtKinds, ok \in BOOLEAN :
          loop_newstmt(l, kind, ok) /\ UNCHANGED offLoop
    \/ loop_newstmt_invisible /\ UNCHANGED offLoop
    \/ PLDBG_CONTINUE /\ UNCHANGED offLoop
    \/ PLDBG_STEP_INTO /\ UNCHANGED offLoop
    \/ PLDBG_STEP_OVER /\ UNCHANGED offLoop
    \/ \E f \in Funcs, l \in Lines, wf \in BOOLEAN :
          PLDBG_SET_BREAKPOINT(f, l, wf) /\ UNCHANGED offLoop
    \/ \E f \in Funcs, l \in Lines, wf \in BOOLEAN :
          PLDBG_CLEAR_BREAKPOINT(f, l, wf) /\ UNCHANGED offLoop
    \/ PLDBG_PRINT_VAR /\ UNCHANGED offLoop
    \/ PLDBG_LIST_BREAKPOINTS /\ UNCHANGED offLoop
    \/ PLDBG_PRINT_STACK /\ UNCHANGED offLoop
    \/ PLDBG_INFO_VARS /\ UNCHANGED offLoop
    \/ \E n \in 0..MaxDepth : PLDBG_SELECT_FRAME(n) /\ UNCHANGED offLoop
    \/ \E found \in BOOLEAN : PLDBG_LIST(found) /\ UNCHANGED offLoop
    \/ \E done \in BOOLEAN : PLDBG_DEPOSIT(done) /\ UNCHANGED offLoop
    \/ \E tag \in Tags : PLDBG_STOP(tag) /\ UNCHANGED offLoop
    \/ unrecognized /\ UNCHANGED offLoop
    \/ \E fr \in 1..MaxDepth, ok \in BOOLEAN : loop_client_lost(fr, ok) /\ UNCHANGED offLoop

\* ====================================================================
\* plugin_debugger.c: do_deposit (and plpgsql_do_deposit, which has the
\* same two attempts and hands the reply to its caller as a boolean)
\* ====================================================================
MaxValueLen == 2      \* characters of the value of a deposit command

ValueChars == {"1", "x", "'"}   \* a digit, a letter, the single quote
Types == {"int", "text"}         \* the types of the two PL variables

SeqsUpTo(S, n) == UNION {[1..k -> S] : k \in 0..n}

\* a digit followed by a letter reads as a column alias or as an error,
\* depending on the server version: such values are left out
DigitThenLetter(v) ==
    \E i \in 1..(Len(v) - 1) : v[i] = "1" /\ v[i + 1] = "x"

Values == {v \in SeqsUpTo(ValueChars, MaxValueLen) : ~DigitThenLetter(v)}

\* command = d:var.line=expr.  wf: it has a '=' and a '.'; known:
\* find_datum_by_name finds the variable; typ: the type of that variable
DepositCommands == [wf : BOOLEAN, known : BOOLEAN, typ : Types, value : Values]

NoCommand == [wf |-> FALSE, known |-> FALSE, typ |-> "int", value |-> <<>>,
              old |-> <<>>]

InitDeposit ==
    /\ dep_pc   = "idle"
    /\ dep_cmd  = NoCommand
    /\ datum    = [ty \in Types |-> IF ty = "int" THEN <<"1">> ELSE <<>>]
    /\ select   = <<>>
    /\ subxacts = 0
    /\ dep_out  = <<>>

IsDigits(s) == s # <<>> /\ \A i \in 1..Len(s) : s[i] = "1"

\* the characters of a string literal between its quotes: two quotes stand
\* for one, a single quote would end the literal early
RECURSIVE Unquote(_)
Unquote(body) ==
    IF body = <<>> THEN [ok |-> TRUE, val |-> <<>>]
    ELSE IF body[1] # "'"
         THEN LET r == Unquote(Tail(body))
              IN  [ok |-> r.ok, val |-> <<body[1]>> \o r.val]
         ELSE IF Len(body) >= 2 /\ body[2] = "'"
              THEN LET r == Unquote(Tail(Tail(body)))
                   IN  [ok |-> r.ok, val |-> <<"'">> \o r.val]
              ELSE [ok |-> FALSE, val |-> <<>>]

\* the server evaluates `SELECT q': a number, a string literal, or an
\* error (an unknown column, an unterminated literal, nothing to select)
Eval(q) ==
    IF IsDigits(q) THEN [ok |-> TRUE, val |-> q]
    ELSE IF Len(q) >= 2 /\ q[1] = "'" /\ q[Len(q)] = "'"
         THEN Unquote(SubSeq(q, 2, Len(q) - 1))
         ELSE [ok |-> FALSE, val |-> <<>>]

\* dbg_info->assign_expr(frame, target, expr): evaluates the query and
\* casts the result to the type of the variable; an error leaves the
\* variable as it is
assign_expr(typ, query) ==
    LET e == Eval(Tail(query))
    IN  IF e.ok /\ (typ = "text" \/ IsDigits(e.val))
        THEN [ok |-> TRUE, val |-> e.val]
        ELSE [ok |-> FALSE, val |-> <<>>]

\* sprintf(select, "SELECT %s", value)
select_expr(value) == <<"SELECT ">> \o value

\* sprintf(select, "SELECT '%s'", value)
select_literal(value) == <<"SELECT ", "'">> \o value \o <<"'">>

\* the parse of the command, find_datum_by_name, the first query and
\* BeginInternalSubTransaction
do_deposit_begin(c) ==
    /\ dep_pc = "idle"
    /\ dep_cmd' = [wf |-> c.wf, known |-> c.known, typ |-> c.typ,
                   value |-> c.value, old |-> datum]
    /\ IF ~c.wf \/ ~c.known
       THEN /\ dep_out' = <<"f">>
            /\ dep_pc' = "done"
            /\ UNCHANGED <<select, subxacts>>
       ELSE /\ select' = select_expr(c.value)
            /\ subxacts' = subxacts + 1
            /\ dep_out' = <<>>
            /\ dep_pc' = "try"
    /\ UNCHANGED datum

\* a first attempt whose failure is reported at once
do_deposit_expr_only ==
    LET r == assign_expr(dep_cmd.typ, select)
    IN  /\ dep_pc = "try"
        /\ subxacts' = subxacts - 1
        /\ dep_pc' = "done"
        /\ IF r.ok
           THEN /\ datum' = [datum EXCEPT ![dep_cmd.typ] = r.val]
                /\ dep_out' = Append(dep_out, "t")
           ELSE /\ dep_out' = Append(dep_out, "f")
                /\ UNCHANGED datum
        /\ UNCHANGED <<dep_cmd, select>>

\* the first PG_TRY: assign_expr, ReleaseCurrentSubTransaction and the
\* reply "t"; or PG_CATCH: RollbackAndReleaseCurrentSubTransaction, retry
do_deposit_expr ==
    LET r == assign_expr(dep_cmd.typ, select)
    IN  /\ dep_pc = "try"
        /\ subxacts' = subxacts - 1
        /\ IF r.ok
           THEN /\ datum' = [datum EXCEPT ![dep_cmd.typ] = r.val]
                /\ dep_out' = Append(dep_out, "t")
                /\ dep_pc' = "done"
           ELSE /\ dep_pc' = "retry"
                /\ UNCHANGED <<datum, dep_out>>
        /\ UNCHANGED <<dep_cmd, select>>

\* if (retry): the second query and BeginInternalSubTransaction
do_deposit_quote ==
    /\ dep_pc = "retry"
    /\ select' = select_literal(dep_cmd.value)
    /\ subxacts' = subxacts + 1
    /\ dep_pc' = "try_literal"
    /\ UNCHANGED <<dep_cmd, datum, dep_out>>

\* the second PG_TRY: reply "t", or PG_CATCH: rollback and reply "f"
do_deposit_literal ==
    LET r == assign_expr(dep_cmd.typ, select)
    IN  /\ dep_pc = "try_literal"
        /\ subxacts' = subxacts - 1
        /\ dep_pc' = "done"
        /\ IF r.ok
           THEN /\ datum' = [datum EXCEPT ![dep_cmd.typ] = r.val]
                /\ dep_out' = Append(dep_out, "t")
           ELSE /\ dep_out' = Append(dep_out, "f")
                /\ UNCHANGED datum
        /\ UNCHANGED <<dep_cmd, select>>

\* pfree(select) and return to the command loop
do_deposit_return ==
    /\ dep_pc = "done"
    /\ dep_pc' = "idle"
    /\ dep_cmd' = NoCommand
    /\ select' = <<>>
    /\ dep_out' = <<>>
    /\ UNCHANGED <<datum, subxacts>>

NextDeposit ==
    \/ \E c \in DepositCommands : do_deposit_begin(c) /\ UNCHANGED offDeposit
    \/ do_deposit_expr /\ UNCHANGED offDeposit
    \/ do_deposit_quote /\ UNCHANGED offDeposit
    \/ do_deposit_literal /\ UNCHANGED offDeposit
    \/ do_deposit_return /\ UNCHANGED offDeposit

\* ====================================================================
\* dbgcomm.c: the calls of one target and one proxy seen from their
\* callers (return value, error raised), the lock of the target slots, the
\* interrupts of the backends, and the two waits for a connection
\* ====================================================================
WaitTarget == 3                  \* the target that calls dbgcomm
WaitProxy  == 1                  \* the proxy that calls dbgcomm
WaitProcs  == {WaitProxy, WaitTarget}
Others     == {5, 6}             \* other targets, seen only through their slots
OtherPort(b) == 200 + b          \* the port such a target listens on
NoLock     == 0

\* the messages of the errors of dbgcomm_connect_to_target
NotListening    == "target backend is not listening for a connection"
CouldNotConnect == "could not connect to target backend"

InitWait ==
    /\ debuggerLock       = NoLock
    /\ wpc                = [p \in WaitProcs \cup DialProxies |-> "out"]
    /\ wret               = [p \in WaitProcs \cup DialProxies |-> 0]
    /\ werr               = [p \in WaitProcs \cup DialProxies |-> None]
    /\ QueryCancelPending = [p \in WaitProcs \cup DialProxies |-> FALSE]
    /\ postmasterAlive    = TRUE

interrupts == <<QueryCancelPending, postmasterAlive>>

\* LWLockAcquire(getPLDebuggerLock(), LW_EXCLUSIVE) in
\* dbgcomm_listen_for_proxy or dbgcomm_connect_to_proxy (fn), after socket
\* and bind
wait_lock(t, fn) ==
    /\ cpc[t] = "idle"
    /\ wpc[t] = "out"
    /\ debuggerLock = NoLock
    /\ debuggerLock' = t
    /\ wpc'  = [wpc EXCEPT ![t] = fn]
    /\ wret' = [wret EXCEPT ![t] = 0]
    /\ werr' = [werr EXCEPT ![t] = None]
    /\ UNCHANGED <<commvars, interrupts>>

\* dbgcomm_listen_for_proxy under the lock: the slot is taken and the lock
\* released, or closesocket, LWLockRelease, ereport(COMMERROR), return -1
wait_listen(t, port) ==
    /\ wpc[t] = "listen_for_proxy"
    /\ debuggerLock = t
    /\ listen_for_proxy_begin(t, port)
    /\ debuggerLock' = NoLock
    /\ wpc'  = [wpc EXCEPT ![t] = "out"]
    /\ wret' = [wret EXCEPT ![t] =
                   IF findFreeTargetSlot(dbgcomm_slots, t) = NoSlot THEN -1 ELSE 0]
    /\ UNCHANGED <<werr, interrupts>>

\* dbgcomm_connect_to_proxy under the lock, the same
wait_connect(t, port) ==
    /\ wpc[t] = "connect_to_proxy"
    /\ debuggerLock = t
    /\ connect_to_proxy_begin(t, port)
    /\ debuggerLock' = NoLock
    /\ wpc'  = [wpc EXCEPT ![t] = "out"]
    /\ wret' = [wret EXCEPT ![t] =
                   IF findFreeTargetSlot(dbgcomm_slots, t) = NoSlot THEN -1 ELSE 0]
    /\ UNCHANGED <<werr, interrupts>>

\* connect() in dbgcomm_connect_to_proxy: the socket is returned, or the
\* slot is reset under the lock and -1 is returned
wait_dial(t, proxyPort, ok) ==
    /\ debuggerLock = NoLock
    /\ connect_to_proxy_connect(t, proxyPort, ok)
    /\ wret' = [wret EXCEPT ![t] = IF ok THEN 1 ELSE -1]
    /\ UNCHANGED <<debuggerLock, wpc, werr, interrupts>>

\* the wait of dbgcomm_listen_for_proxy: a plain accept(), which returns
\* when a connection arrives; the connection is then authenticated
wait_listen_accept(t, c) ==
    /\ debuggerLock = NoLock
    /\ listen_for_proxy_accept(t, c)
    /\ wret' = [wret EXCEPT ![t] = IF cpc'[t] = "attached" THEN 1 ELSE @]
    /\ UNCHANGED <<debuggerLock, wpc, werr, interrupts>>

\* dbgcomm_connect_to_target of the proxy
wait_target_begin(p, targetBackend, port) ==
    /\ debuggerLock = NoLock
    /\ connect_to_target_begin(p, targetBackend, port)
    /\ werr' = [werr EXCEPT ![p] =
                   IF cpc'[p] = "connect" THEN None ELSE NotListening]
    /\ wret' = [wret EXCEPT ![p] = 0]
    /\ UNCHANGED <<debuggerLock, wpc, interrupts>>

\* connect(): the socket is returned, or ereport(ERROR)
wait_target_connect(p, ok) ==
    /\ connect_to_target_connect(p, ok)
    /\ werr' = [werr EXCEPT ![p] = IF ok THEN None ELSE CouldNotConnect]
    /\ wret' = [wret EXCEPT ![p] = IF ok THEN 1 ELSE 0]
    /\ UNCHANGED <<debuggerLock, wpc, interrupts>>

\* dbgcomm_accept_target: the proxy enters the loop
wait_accept_begin(p) ==
    /\ wpc[p] = "out"
    /\ accept_target_begin(p)
    /\ werr' = [werr EXCEPT ![p] = None]
    /\ UNCHANGED <<debuggerLock, wpc, wret, interrupts>>

\* select() reports the listener readable, accept(), authentication
wait_accept_accept(p, c) ==
    /\ debuggerLock = NoLock
    /\ accept_target_accept(p, c)
    /\ UNCHANGED waitvars

\* the top of the loop of dbgcomm_accept_target, reached after select()
\* timed out (1 s) or was interrupted: CHECK_FOR_INTERRUPTS raises the
\* pending cancel, a dead postmaster is FATAL and the backend exits
accept_target_wake(p) ==
    /\ cpc[p] = "wait"
    /\ IF QueryCancelPending[p]
       THEN /\ accept_target_cancel(p)
            /\ QueryCancelPending' = [QueryCancelPending EXCEPT ![p] = FALSE]
            /\ werr' = [werr EXCEPT ![p] = "ERROR"]
            /\ UNCHANGED <<debuggerLock, wpc, wret, postmasterAlive>>
       ELSE IF ~postmasterAlive
            THEN /\ accept_target_cancel(p)
                 /\ werr' = [werr EXCEPT ![p] = "FATAL"]
                 /\ wpc'  = [wpc EXCEPT ![p] = "exited"]
                 /\ UNCHANGED <<debuggerLock, wret, interrupts>>
            ELSE UNCHANGED <<commvars, waitvars>>

\* the caller closes the socket it got
wait_close(p) ==
    /\ close_socket(p)
    /\ wret' = [wret EXCEPT ![p] = 0]
    /\ UNCHANGED <<debuggerLock, wpc, werr, interrupts>>

\* ------------------------------------------------------------ environment
\* a query cancel arrives: the signal handler sets QueryCancelPending (the
\* handlers are installed with SA_RESTART: accept() is not interrupted)
cancel_request(p) ==
    /\ ~QueryCancelPending[p]
    /\ wpc[p] # "exited"
    /\ QueryCancelPending' = [QueryCancelPending EXCEPT ![p] = TRUE]
    /\ UNCHANGED <<commvars, debuggerLock, wpc, wret, werr, postmasterAlive>>

postmaster_dies ==
    /\ postmasterAlive
    /\ postmasterAlive' = FALSE
    /\ UNCHANGED <<commvars, debuggerLock, wpc, wret, werr, QueryCancelPending>>

\* another target takes a free slot in dbgcomm_listen_for_proxy
other_listen(b) ==
    LET i == findFreeTargetSlot(dbgcomm_slots, b)
    IN  /\ debuggerLock = NoLock
        /\ i # NoSlot
        /\ \A j \in Slots : dbgcomm_slots[j].backendid # MyBackendId(b)
        /\ dbgcomm_slots' = [dbgcomm_slots EXCEPT ![i] =
               [backendid |-> MyBackendId(b),
                status    |-> DBGCOMM_LISTENING_FOR_PROXY,
                pid       |-> b,
                port      |-> OtherPort(b)]]
        /\ UNCHANGED <<boundPorts, conns, cpc, slot, localport, remoteport,
                       sock, targetPid, waitvars>>

\* the proxy of that target has connected: its accept loop frees the slot
other_attached(b) ==
    /\ debuggerLock = NoLock
    /\ \E i \in Slots :
          /\ dbgcomm_slots[i].backendid = MyBackendId(b)
          /\ dbgcomm_slots' = [dbgcomm_slots EXCEPT ![i] =
                 [@ EXCEPT !.backendid = InvalidBackendId,
                           !.status = DBGCOMM_IDLE]]
    /\ UNCHANGED <<boundPorts, conns, cpc, slot, localport, remoteport,
                   sock, targetPid, waitvars>>

WaitCalls == {"listen_for_proxy", "connect_to_proxy"}

NextWait ==
    \/ \E fn \in WaitCalls : wait_lock(WaitTarget, fn) /\ UNCHANGED offWait
    \/ \E port \in EphemeralPorts : wait_listen(WaitTarget, port) /\ UNCHANGED offWait
    \/ \E port \in EphemeralPorts : wait_connect(WaitTarget, port) /\ UNCHANGED offWait
    \/ \E ok \in BOOLEAN :
          wait_dial(WaitTarget, ListenerPort(WaitProxy), ok) /\ UNCHANGED offWait
    \/ \E c \in DOMAIN conns : wait_listen_accept(WaitTarget, c) /\ UNCHANGED offWait
    \/ \E port \in EphemeralPorts :
          wait_target_begin(WaitProxy, MyBackendId(WaitTarget), port) /\ UNCHANGED offWait
    \/ \E ok \in BOOLEAN : wait_target_connect(WaitProxy, ok) /\ UNCHANGED offWait
    \/ wait_accept_begin(WaitProxy) /\ UNCHANGED offWait
    \/ \E c \in DOMAIN conns : wait_accept_accept(WaitProxy, c) /\ UNCHANGED offWait
    \/ accept_target_wake(WaitProxy) /\ UNCHANGED offWait
    \/ \E p \in WaitProcs : wait_close(p) /\ UNCHANGED offWait
    \/ \E p \in WaitProcs : cancel_request(p) /\ UNCHANGED offWait
    \/ postmaster_dies /\ UNCHANGED offWait
    \/ \E b \in Others : other_listen(b) /\ UNCHANGED offWait
    \/ \E b \in Others : other_attached(b) /\ UNCHANGED offWait

\* two proxies ask for the same target, which listens for a proxy
NextDial ==
    \/ wait_lock(WaitTarget, "listen_for_proxy") /\ UNCHANGED offWait
    \/ \E port \in EphemeralPorts : wait_listen(WaitTarget, port) /\ UNCHANGED offWait
    \/ \E c \in DOMAIN conns : wait_listen_accept(WaitTarget, c) /\ UNCHANGED offWait
    \/ \E p \in DialProxies, port \in EphemeralPorts :
          wait_target_begin(p, MyBackendId(WaitTarget), port) /\ UNCHANGED offWait
    \/ \E p \in DialProxies, ok \in BOOLEAN :
          wait_target_connect(p, ok) /\ UNCHANGED offWait
    \/ \E p \in DialProxies \cup {WaitTarget} : wait_close(p) /\ UNCHANGED offWait

\* ====================================================================
\* pldbgapi.c: pldbg_wait_for_target of one proxy, step by step: the
\* select on the listener, the accept, the authentication of the target
\* and the handshake
\* ====================================================================
MaxAccepts == 3                  \* connections the listener accepts in all
WftProxy   == 1                  \* pid of the proxy
NoSocket   == -1                 \* session->serverSocket: not connected
Credentials == {"valid", "invalid"}

InitProxy ==
    /\ wft_pc       = "out"
    /\ serverSocket = NoSocket
    /\ wft_conns    = <<>>
    /\ wft_err      = None
    /\ wft_ret      = 0

\* connection c as the target that made it sees it
Connection(cred) == [cred |-> cred, open |-> TRUE, sent |-> <<>>]

\* sendString(session, s): send() on session->serverSocket adds s to what
\* the peer receives; with serverSocket == -1, or when the peer is gone
\* (~ok), send() returns -1 and writen raises
SendTo(cs, fd, s, ok) ==
    IF fd = NoSocket \/ ~ok
    THEN [conns |-> cs, error |-> "debugger connection terminated"]
    ELSE [conns |-> [cs EXCEPT ![fd].sent = Append(@, s)], error |-> None]

\* close(session->serverSocket)
CloseOf(cs, fd) == [cs EXCEPT ![fd].open = FALSE]

\* the function is left with ereport(ERROR, ..)
wft_raise(e) ==
    /\ wft_pc'  = "out"
    /\ wft_err' = e
    /\ wft_ret' = 0

\* pldbg_wait_for_target(session) is called: BreakpointFreeSession, then
\* select on the listener and the libpq socket
wft_call ==
    /\ wft_pc = "out"
    /\ Len(wft_conns) < MaxAccepts
    /\ pldbg_wait_for_target(WftProxy)
    /\ wft_pc'  = "select"
    /\ wft_err' = None
    /\ wft_ret' = 0
    /\ UNCHANGED <<serverSocket, wft_conns>>

\* select returns: -1, traffic on the libpq socket (return NULL), or a
\* target has connected and accept returns its socket (or fails)
wft_select(outcome, cred) ==
    /\ wft_pc = "select"
    /\ UNCHANGED bpvars
    /\ CASE outcome = "failed" ->
               /\ wft_raise("select() failed waiting for target")
               /\ UNCHANGED <<serverSocket, wft_conns>>
         [] outcome = "libpq" ->
               /\ wft_pc'  = "out"
               /\ wft_ret' = 0
               /\ UNCHANGED <<serverSocket, wft_conns, wft_err>>
         [] outcome = "accept failed" ->
               /\ wft_raise("could not create socket for debugger connection")
               /\ UNCHANGED <<serverSocket, wft_conns>>
         [] OTHER ->
               /\ wft_conns'    = Append(wft_conns, Connection(cred))
               /\ serverSocket' = Len(wft_conns) + 1
               /\ wft_pc'       = "authenticate"
               /\ UNCHANGED <<wft_err, wft_ret>>

\* after sendString("f"), close and serverSocket = -1 the function goes on
\* to sendString(session, "t"): send() on descriptor -1 fails and writen
\* raises
wft_rejected(cs, ok) ==
    LET t == SendTo(CloseOf(cs, serverSocket), NoSocket, "t", ok)
    IN  /\ wft_conns'    = t.conns
        /\ serverSocket' = NoSocket
        /\ wft_raise(t.error)

\* getUInt32, getAddress and BackendPidGetProc: the credentials of the
\* target are read (~got: the connection breaks first) and checked; then
\* sendString "f" or "t" (ok: the peer is still there)
wft_authenticate(got, ok) ==
    LET c == serverSocket
    IN  /\ wft_pc = "authenticate"
        /\ UNCHANGED bpvars
        /\ IF ~got
           THEN /\ wft_raise("debugger connection terminated")
                /\ UNCHANGED <<serverSocket, wft_conns>>
           ELSE IF wft_conns[c].cred = "invalid"
           THEN LET f == SendTo(wft_conns, c, "f", ok)
                IN  IF f.error # None
                    THEN /\ wft_raise(f.error)
                         /\ UNCHANGED <<serverSocket, wft_conns>>
                    ELSE wft_rejected(f.conns, ok)
           ELSE LET t == SendTo(wft_conns, c, "t", ok)
                IN  IF t.error # None
                    THEN /\ wft_raise(t.error)
                         /\ UNCHANGED <<serverSocket, wft_conns>>
                    ELSE /\ wft_conns' = t.conns
                         /\ wft_pc'    = "version"
                         /\ UNCHANGED <<serverSocket, wft_err, wft_ret>>

\* getNString (the protocol version of the target), sendString of
\* PROXY_PROTO_VERSION, return serverPID
wft_version(got, ok) ==
    LET v == SendTo(wft_conns, serverSocket, "2.0", ok)
    IN  /\ wft_pc = "version"
        /\ UNCHANGED bpvars
        /\ IF ~got
           THEN /\ wft_raise("debugger connection terminated")
                /\ UNCHANGED <<serverSocket, wft_conns>>
           ELSE IF v.error # None
           THEN /\ wft_raise(v.error)
                /\ UNCHANGED <<serverSocket, wft_conns>>
           ELSE /\ wft_conns' = v.conns
                /\ wft_pc'    = "out"
                /\ wft_ret'   = serverSocket
                /\ UNCHANGED <<serverSocket, wft_err>>

SelectOutcomes == {"failed", "libpq", "accept failed", "accepted"}

NextProxy ==
    \/ wft_call /\ UNCHANGED offProxy
    \/ \E outcome \in SelectOutcomes, cred \in Credentials :
          wft_select(outcome, cred) /\ UNCHANGED offProxy
    \/ \E got \in BOOLEAN, ok \in BOOLEAN :
          wft_authenticate(got, ok) /\ UNCHANGED offProxy
    \/ \E got \in BOOLEAN, ok \in BOOLEAN :
          wft_version(got, ok) /\ UNCHANGED offProxy

\* ====================================================================
\* plugin_debugger.c: send_breakpoints, the list-breakpoints command of an
\* attached target, string by string.  The GLOBAL table is scanned between
\* BreakpointGetList and BreakpointReleaseList, which hold breakpointLock
\* in shared mode; the LOCAL table has no lock.
\* ====================================================================
InitList == lst = [t \in Targets |-> [pos |-> "out", func |-> 0, sent |-> {}]]

\* the entries of table h that send_breakpoints of backend t sends for
\* function funcOid
Listed(h, t, funcOid) ==
    {k \in DOMAIN h : /\ k.targetPid = AnyPid \/ k.targetPid = t
                      /\ k.databaseId = DbOf(t)
                      /\ k.functionId = funcOid}

\* the entries the scan of t has still to send
Unsent(t) ==
    Listed(IF lst[t].pos = "global" THEN globalBreakpoints ELSE localBreakpoints[t],
           t, lst[t].func) \ lst[t].sent

\* dbg_send fails: handle_socket_error, siglongjmp(client_lost.m_savepoint)
\* to dbg_newstmt, which clears client_w; nothing on the way releases a lock
list_client_lost(t) ==
    /\ client_w' = [client_w EXCEPT ![t] = 0]
    /\ lst' = [lst EXCEPT ![t] = [pos |-> "out", func |-> 0, sent |-> {}]]
    /\ UNCHANGED <<globalBreakpoints, globalBreakCounts, localBreakpoints,
                   localBreakCounts, breakpointLock, pc, cleanupKey,
                   cleanupCnt, step_into_next_func>>

\* the command arrives: BreakpointGetList(BP_GLOBAL, &scan)
list_begin(t, funcOid) ==
    /\ lst[t].pos = "out"
    /\ client_w[t] # 0
    /\ t \notin breakpointLock
    /\ breakpointLock' = breakpointLock \cup {t}
    /\ lst' = [lst EXCEPT ![t] = [pos |-> "global", func |-> funcOid, sent |-> {}]]
    /\ UNCHANGED <<globalBreakpoints, globalBreakCounts, localBreakpoints,
                   localBreakCounts, pc, cleanupKey, cleanupCnt, client_w,
                   step_into_next_func>>

\* one turn of a scan: dbg_send of entry k, which succeeds or fails
list_send(t, k, ok) ==
    /\ lst[t].pos \in {"global", "local"}
    /\ k \in Unsent(t)
    /\ IF ok
       THEN /\ lst' = [lst EXCEPT ![t].sent = @ \cup {k}]
            /\ UNCHANGED bpvars
       ELSE list_client_lost(t)

\* hash_seq_search returns NULL: BreakpointReleaseList(BP_GLOBAL), then
\* BreakpointGetList(BP_LOCAL, &scan)
list_release(t) ==
    /\ lst[t].pos = "global"
    /\ Unsent(t) = {}
    /\ breakpointLock' = breakpointLock \ {t}
    /\ lst' = [lst EXCEPT ![t].pos = "local", ![t].sent = {}]
    /\ UNCHANGED <<globalBreakpoints, globalBreakCounts, localBreakpoints,
                   localBreakCounts, pc, cleanupKey, cleanupCnt, client_w,
                   step_into_next_func>>

\* BreakpointReleaseList(BP_LOCAL), and the empty string that ends the list
list_end(t, ok) ==
    /\ lst[t].pos = "local"
    /\ Unsent(t) = {}
    /\ IF ok
       THEN /\ lst' = [lst EXCEPT ![t] = [pos |-> "out", func |-> 0, sent |-> {}]]
            /\ UNCHANGED bpvars
       ELSE list_client_lost(t)

\* a proxy sets breakpoints, the target attaches at one of them and lists
\* the breakpoints of a function
NextList ==
    \/ \E p \in Proxies, f \in Funcs, l \in Lines, t \in TargetPids, b \in BOOLEAN :
          pldbg_set_global_breakpoint(p, f, l, t, b)
             /\ UNCHANGED offBp
    \/ \E t \in Targets, f \in Funcs, l \in Lines, b \in BOOLEAN :
          /\ lst[t].pos = "out"
          /\ addLocalBreakpoint(t, f, l, b)
          /\ UNCHANGED offBp
    \/ \E t \in Targets, f \in Funcs, first \in BOOLEAN, lineno \in StmtLines,
          ok \in BOOLEAN :
          /\ lst[t].pos = "out"
          /\ dbg_newstmt(t, f, first, lineno, ok)
          /\ UNCHANGED offBp
    \/ \E t \in Targets, f \in Funcs : list_begin(t, f) /\ UNCHANGED offList
    \/ \E t \in Targets, ok \in BOOLEAN : \E k \in Unsent(t) :
          list_send(t, k, ok) /\ UNCHANGED offList
    \/ \E t \in Targets : list_release(t) /\ UNCHANGED offList
    \/ \E t \in Targets, ok \in BOOLEAN : list_end(t, ok) /\ UNCHANGED offList

\* ====================================================================
\* the whole program
\* ====================================================================
vars == <<bpvars, commvars, stmtvars, wirevars, sessvars, loopvars,
          depositvars, waitvars, proxyvars, listvars>>

Init == InitBp /\ InitComm /\ InitStmt /\ InitWire /\ InitSess /\ InitLoop
        /\ InitDeposit /\ InitWait /\ InitProxy
        /\ InitList

Next == NextBp \/ NextComm \/ NextStmt \/ NextWire \/ NextSess \/ NextLoop
        \/ NextDeposit \/ NextWait \/ NextProxy \/ NextDial
        \/ NextList

Spec == Init /\ [][Next]_vars

\* the breakpoint registry alone, and the rendezvous alone
SpecBp   == Init /\ [][NextBp]_vars
SpecComm == Init /\ [][NextComm]_vars
SpecStmt == Init /\ [][NextStmt]_vars
SpecWire == Init /\ [][NextWire]_vars
SpecSess == Init /\ [][NextSess]_vars
SpecLoop == Init /\ [][NextLoop]_vars
SpecExit == Init /\ [][NextExit]_vars
SpecDeposit == Init /\ [][NextDeposit]_vars
SpecWait == Init /\ [][NextWait]_vars
SpecProxy == Init /\ [][NextProxy]_vars
SpecDial == Init /\ [][NextDial]_vars
SpecList == Init /\ [][NextList]_vars

\* select() in dbgcomm_accept_target has a timeout of one second: the top
\* of the loop is reached again and again while the proxy waits.  Nothing
\* makes accept() in dbgcomm_listen_for_proxy return but a connection.
FairWait == WF_vars(accept_target_wake(WaitProxy) /\ UNCHANGED offWait)
SpecWaitFair == Init /\ [][NextWait]_vars /\ FairWait

\* ====================================================================
\* properties of the breakpoint registry
\* ====================================================================
\* the breakpoints of table h on entity (db, f)
WithPrefix(h, db, f) ==
    {k \in DOMAIN h : k.databaseId = db /\ k.functionId = f}

\* the BreakCount table `counts' agrees with the Breakpoint table h
CountsMatch(h, counts) ==
    /\ \A ck \in DOMAIN counts :
          counts[ck] = Cardinality(WithPrefix(h, ck.databaseId, ck.functionId))
    /\ \A ck \in DOMAIN counts : counts[ck] > 0
    /\ \A k \in DOMAIN h : BreakCountKey(k) \in DOMAIN counts

\* C1: in both scopes, BreakpointInsert on an absent key returns TRUE and the
\* BreakpointLookup that follows returns the data that was inserted (busy
\* starts FALSE); BreakpointInsert on a key that is present returns FALSE
\* and the stored data stays what it was.
C1_InsertThenLookup ==
    [][ /\ Size(globalBreakpoints') > Size(globalBreakpoints) =>
           \A p \in Proxies, f \in Funcs, l \in Lines, t \in TargetPids, b \in BOOLEAN :
             pldbg_set_global_breakpoint(p, f, l, t, b) =>
                LET key    == BreakpointKey(DbOf(p), f, l, t)
                    data   == BreakpointData(TRUE, b, ProxyPortOf(p), p)
                    r      == BreakpointInsert(globalBreakpoints, globalBreakCounts,
                                               key, data)
                    now    == BreakpointLookup(BP_GLOBAL, p, key)'
                IN  /\ BreakpointLookup(BP_GLOBAL, p, key) = NULL
                    /\ r.ret = TRUE
                    /\ now.found
                    /\ now.key = key
                    /\ now.data = [data EXCEPT !.busy = FALSE]
                    \* the second insert, by any proxy
                    /\ \A p2 \in Proxies, b2 \in BOOLEAN :
                          LET r2 == BreakpointInsert(globalBreakpoints', globalBreakCounts',
                                       key, BreakpointData(TRUE, b2, ProxyPortOf(p2), p2))
                          IN  /\ r2.ret = FALSE
                              /\ r2.bp  = globalBreakpoints'
                              /\ r2.cnt = globalBreakCounts'
        /\ localBreakpoints' # localBreakpoints =>
           \A t \in Targets, f \in Funcs, l \in Lines, b \in BOOLEAN :
             addLocalBreakpoint(t, f, l, b) =>
                LET key    == BreakpointKey(DbOf(t), f, l, t)
                    data   == BreakpointData(FALSE, b, NoPort, NoPid)
                    r      == BreakpointInsert(localBreakpoints[t], localBreakCounts[t],
                                               key, data)
                    now    == BreakpointLookup(BP_LOCAL, t, key)'
                IN  /\ BreakpointLookup(BP_LOCAL, t, key) = NULL
                    /\ r.ret = TRUE
                    /\ now.found
                    /\ now.key = key
                    /\ now.data = [data EXCEPT !.busy = FALSE]
                    /\ \A b2 \in BOOLEAN :
                          LET r2 == BreakpointInsert(localBreakpoints'[t], localBreakCounts'[t],
                                       key, BreakpointData(FALSE, b2, NoPort, NoPid))
                          IN  /\ r2.ret = FALSE
                              /\ r2.bp  = localBreakpoints'[t]
                              /\ r2.cnt = localBreakCounts'[t]
      ]_vars

\* a GLOBAL breakpoint of proxy 1 is stored while proxy 2 can insert on the
\* same key, and the target holds a LOCAL breakpoint it can insert again
C1_Witness ==
    /\ \E k \in DOMAIN globalBreakpoints : globalBreakpoints[k].proxyPid = 1
    /\ pc[2] = "run" /\ LockFree
    /\ \E t \in Targets : \E k \in DOMAIN localBreakpoints[t] :
          localBreakpoints[t][k].proxyPid = NoPid

\* C2: whenever breakpointLock is free, in each scope a BreakCount entry
\* exists iff a Breakpoint of that (databaseId, functionId) exists and its
\* count is the number of those Breakpoints.
C2_BreakCountInvariant ==
    /\ LockFree => CountsMatch(globalBreakpoints, globalBreakCounts)
    /\ \A t \in Targets : CountsMatch(localBreakpoints[t], localBreakCounts[t])

\* C3: after a BreakpointDelete, BreakpointOnId(scope, f) is TRUE iff a
\* breakpoint of (the caller's database, f) is left in that scope: TRUE while
\* one of the N inserted is left, FALSE once the last one is deleted.
C3_OnIdAfterDelete ==
    [][ /\ \A t \in Targets, f \in Funcs, first \in BOOLEAN, lineno \in StmtLines :
             LET b == breakAtThisLine(t, f, IF first THEN EntryLine ELSE lineno)
             IN  ( /\ client_w[t] = 0 /\ client_w'[t] = 0
                   /\ b.hit /\ b.dst # NULL
                   /\ dbg_newstmt(t, f, first, lineno, FALSE) )
                 => IF b.scope = BP_GLOBAL
                    THEN BreakpointOnId(BP_GLOBAL, t, f)' <=>
                            WithPrefix(globalBreakpoints', DbOf(t), f) # {}
                    ELSE BreakpointOnId(BP_LOCAL, t, f)' <=>
                            WithPrefix(localBreakpoints'[t], DbOf(t), f) # {}
        /\ \A t \in Targets, f \in Funcs, l \in Lines :
             clearBreakpoint(t, f, l) =>
                 ( BreakpointOnId(BP_LOCAL, t, f)' <=>
                   WithPrefix(localBreakpoints'[t], DbOf(t), f) # {} )
      ]_vars

\* C4 as stated: with a GLOBAL breakpoint for P, a GLOBAL breakpoint for any
\* process and a LOCAL breakpoint of P on one (database, entity, line), and no
\* step-into pending, breakAtThisLine by P returns the GLOBAL one for P.
C4_PrecedenceAsStated ==
    \A t \in Targets, f \in Funcs, l \in Lines :
        LET keyMe  == BreakpointKey(DbOf(t), f, l, t)
            keyAny == BreakpointKey(DbOf(t), f, l, AnyPid)
            b      == breakAtThisLine(t, f, l)
        IN  ( /\ keyMe  \in DOMAIN globalBreakpoints
              /\ keyAny \in DOMAIN globalBreakpoints
              /\ keyMe  \in DOMAIN localBreakpoints[t]
              /\ ~step_into_next_func[t] )
            => ( b.hit /\ b.scope = BP_GLOBAL /\ b.dst.found /\ b.dst.key = keyMe )

\* C4 amended: the same, whenever the GLOBAL breakpoint for P is not busy.
C4_PrecedenceNotBusy ==
    \A t \in Targets, f \in Funcs, l \in Lines :
        LET keyMe  == BreakpointKey(DbOf(t), f, l, t)
            keyAny == BreakpointKey(DbOf(t), f, l, AnyPid)
            b      == breakAtThisLine(t, f, l)
        IN  ( /\ keyMe  \in DOMAIN globalBreakpoints
              /\ globalBreakpoints[keyMe].busy = FALSE
              /\ keyAny \in DOMAIN globalBreakpoints
              /\ keyMe  \in DOMAIN localBreakpoints[t]
              /\ ~step_into_next_func[t] )
            => ( /\ b.hit /\ b.scope = BP_GLOBAL /\ b.dst.found
                 /\ b.dst.key = keyMe
                 /\ b.dst.data = globalBreakpoints[keyMe] )

\* the three breakpoints exist on one line, the one for P not busy, the one
\* for any process not busy either, and no step-into is pending
C4_Witness ==
    \E t \in Targets, f \in Funcs, l \in Lines :
        LET keyMe  == BreakpointKey(DbOf(t), f, l, t)
            keyAny == BreakpointKey(DbOf(t), f, l, AnyPid)
        IN  /\ keyMe  \in DOMAIN globalBreakpoints
            /\ globalBreakpoints[keyMe].busy = FALSE
            /\ keyAny \in DOMAIN globalBreakpoints
            /\ globalBreakpoints[keyAny].busy = FALSE
            /\ keyMe  \in DOMAIN localBreakpoints[t]
            /\ ~step_into_next_func[t]

\* a line on which no breakpoint is ever set
UnsetLines == {2}

C6_BusyThenFree ==
    [][ /\ \A t \in Targets, f \in Funcs, first \in BOOLEAN, lineno \in StmtLines :
             LET b == breakAtThisLine(t, f, IF first THEN EntryLine ELSE lineno)
             IN  ( /\ client_w[t] = 0 /\ client_w'[t] # 0
                   /\ b.hit /\ b.dst # NULL
                   /\ b.dst.data.proxyPort # NoPort
                   /\ dbg_newstmt(t, f, first, lineno, TRUE) )
                 => LET pid == b.dst.data.proxyPid
                    IN  /\ OwnedBy(globalBreakpoints', pid) = OwnedBy(globalBreakpoints, pid)
                        /\ \A k \in OwnedBy(globalBreakpoints', pid) :
                              /\ globalBreakpoints'[k].busy = TRUE
                              /\ BreakpointKey(k.databaseId, k.functionId,
                                               k.lineNumber, t)
                                    \in DOMAIN localBreakpoints'[t]
        /\ \A p \in Proxies :
             pldbg_wait_for_target(p) =>
                /\ OwnedBy(globalBreakpoints', p) = OwnedBy(globalBreakpoints, p)
                /\ \A k \in OwnedBy(globalBreakpoints', p) :
                      globalBreakpoints'[k].busy = FALSE
                /\ \A t \in Targets :
                      DOMAIN localBreakpoints[t] \subseteq DOMAIN localBreakpoints'[t]
      ]_vars

\* the target holds the clone of a GLOBAL breakpoint for any process, and
\* that breakpoint of the proxy is busy
C6_Witness ==
    \E t \in Targets : \E k \in DOMAIN globalBreakpoints :
        /\ k.targetPid = AnyPid
        /\ globalBreakpoints[k].busy
        /\ client_w[t] # 0
        /\ [k EXCEPT !.targetPid = t] \in DOMAIN localBreakpoints[t]
        /\ localBreakpoints[t][[k EXCEPT !.targetPid = t]].proxyPid
              = globalBreakpoints[k].proxyPid

\* C7: BreakpointFreeSession(p) called again right after
\* BreakpointFreeSession(p) changes nothing: the GLOBAL table it returns is
\* the one the first call left, and the call touches no other table.
C7_FreeSessionIdempotent ==
    [][ \A p \in Proxies :
           pldbg_wait_for_target(p) =>
              /\ BreakpointFreeSession(globalBreakpoints', p) = globalBreakpoints'
              /\ UNCHANGED <<globalBreakCounts, localBreakpoints, localBreakCounts>>
      ]_vars

\* proxy p can call BreakpointFreeSession while one of its GLOBAL breakpoints
\* is not busy and the clone a target made of it is still in the LOCAL table
C7_Witness ==
    \E p \in Proxies, t \in Targets : \E k \in DOMAIN globalBreakpoints :
        /\ globalBreakpoints[k].proxyPid = p
        /\ globalBreakpoints[k].busy = FALSE
        /\ pc[p] = "run" /\ LockFree
        /\ \E lk \in DOMAIN localBreakpoints[t] : localBreakpoints[t][lk].proxyPid = p

\* ====================================================================
\* properties of the rendezvous
\* ====================================================================
\* C8: while the slot of target B says PROXY_CONNECTING with port P,
\* dbgcomm_listen_for_proxy returns a connection only if its source port is
\* P; a connection from another port is closed and B stays in its accept loop.
C8_ProxyPortAuthenticates ==
    [][ \A t \in CommTargets :
          cpc[t] = "accept" =>
            LET s == dbgcomm_slots[slot[t]]
            IN  \* a connection is returned
                /\ cpc'[t] = "attached" =>
                      /\ s.status = DBGCOMM_PROXY_CONNECTING
                      /\ sock'[t].src = s.port
                      /\ sock'[t].dst = localport[t]
                      /\ conns[sock'[t]] = "pending"
                      /\ conns'[sock'[t]] = "accepted"
                \* a connection from another port is taken off the queue
                /\ \A c \in Pending(localport[t]) :
                      ( /\ s.status = DBGCOMM_PROXY_CONNECTING
                        /\ c.src # s.port
                        /\ listen_for_proxy_accept(t, c) )
                      => /\ conns'[c] = "closed"
                         /\ cpc'[t] = "accept"
                         /\ sock'[t] = NoSock
                         /\ dbgcomm_slots' = dbgcomm_slots
      ]_vars

\* target B holds the connection of the proxy whose port was in its slot,
\* and a connection a decoy made to the same port was closed
C8_Witness ==
    \E t \in CommTargets :
        /\ cpc[t] = "attached"
        /\ sock[t].from \in CommProxies
        /\ sock[t] \in DOMAIN conns
        /\ conns[sock[t]] = "accepted"
        /\ \E c \in DOMAIN conns :
              c.from = Decoy /\ c.dst = localport[t] /\ conns[c] = "closed"

\* C9 as stated: a connection that arrives while the slot still says
\* LISTENING_FOR_PROXY, no port having been recorded, is accepted and returned.
C9_AcceptWithoutRecordedPort ==
    [][ \A t \in CommTargets : \A c \in DOMAIN conns :
          ( /\ cpc[t] = "accept"
            /\ dbgcomm_slots[slot[t]].status = DBGCOMM_LISTENING_FOR_PROXY
            /\ listen_for_proxy_accept(t, c) )
          => ( cpc'[t] = "attached" /\ sock'[t] = c )
      ]_vars

\* C9 amended: a connection that arrives while the slot still says
\* LISTENING_FOR_PROXY is closed, the slot is left as it is and the target
\* stays in its accept loop; a connection is returned only from a slot that
\* says PROXY_CONNECTING.
C9_ClosedWithoutRecordedPort ==
    [][ \A t \in CommTargets :
          cpc[t] = "accept" =>
            /\ \A c \in Pending(localport[t]) :
                  ( /\ dbgcomm_slots[slot[t]].status = DBGCOMM_LISTENING_FOR_PROXY
                    /\ listen_for_proxy_accept(t, c) )
                  => /\ conns'[c] = "closed"
                     /\ cpc'[t] = "accept"
                     /\ sock'[t] = NoSock
                     /\ dbgcomm_slots' = dbgcomm_slots
            /\ cpc'[t] = "attached" =>
                  dbgcomm_slots[slot[t]].status = DBGCOMM_PROXY_CONNECTING
      ]_vars

\* a connection to the port a target published was closed, and the target
\* is still listening, its slot saying LISTENING_FOR_PROXY
C9_Witness ==
    \E t \in CommTargets :
        /\ cpc[t] = "accept"
        /\ dbgcomm_slots[slot[t]].status = DBGCOMM_LISTENING_FOR_PROXY
        /\ dbgcomm_slots[slot[t]].port = localport[t]
        /\ \E c \in DOMAIN conns : c.dst = localport[t] /\ conns[c] = "closed"

\* the slots a connection from port src authenticates against
SlotsOfPort(src) ==
    {i \in Slots : /\ dbgcomm_slots[i].status = DBGCOMM_CONNECTING_TO_PROXY
                   /\ dbgcomm_slots[i].port = src}

\* C10: dbgcomm_accept_target returns a connection only if a slot says
\* CONNECTING_TO_PROXY with the connection's source port, and reports the pid
\* of that slot; a connection that matches no slot is closed and the proxy
\* keeps waiting.
C10_TargetPortAuthenticates ==
    [][ \A p \in CommProxies :
          cpc[p] = "wait" =>
            /\ cpc'[p] = "attached" =>
                  /\ sock'[p].dst = ListenerPort(p)
                  /\ conns[sock'[p]] = "pending"
                  /\ conns'[sock'[p]] = "accepted"
                  /\ SlotsOfPort(sock'[p].src) # {}
                  /\ \E i \in SlotsOfPort(sock'[p].src) :
                        /\ targetPid'[p] = dbgcomm_slots[i].pid
                        /\ \A j \in SlotsOfPort(sock'[p].src) : i <= j
            /\ \A c \in Pending(ListenerPort(p)) :
                  ( SlotsOfPort(c.src) = {} /\ accept_target_accept(p, c) )
                  => /\ conns'[c] = "closed"
                     /\ cpc'[p] = "wait"
                     /\ sock'[p] = NoSock
                     /\ targetPid'[p] = targetPid[p]
      ]_vars

\* the proxy holds the connection of a target and has its pid, while the
\* other target's slot says CONNECTING_TO_PROXY too, and a connection of a
\* decoy to the proxy's port was closed
C10_Witness ==
    \E p \in CommProxies :
        /\ cpc[p] = "attached"
        /\ sock[p].from \in CommTargets
        /\ targetPid[p] = sock[p].from
        /\ \E i \in Slots : /\ dbgcomm_slots[i].status = DBGCOMM_CONNECTING_TO_PROXY
                            /\ dbgcomm_slots[i].pid # targetPid[p]
        /\ \E c \in DOMAIN conns :
              c.from = Decoy /\ c.dst = ListenerPort(p) /\ conns[c] = "closed"

\* the slots findFreeTargetSlot can hand to backend p
FreeSlotsFor(p) ==
    {i \in Slots : \/ dbgcomm_slots[i].backendid = InvalidBackendId
                   \/ dbgcomm_slots[i].backendid = MyBackendId(p)}

\* C11: a slot whose handshake is over (its status is IDLE) is back in the
\* pool: findFreeTargetSlot can hand it to any backend.
C11_IdleSlotIsFree ==
    \A i \in Slots :
        dbgcomm_slots[i].status = DBGCOMM_IDLE =>
            \A p \in CommProcs : i \in FreeSlotsFor(p)

\* ====================================================================
\* properties of the statement hook
\* ====================================================================
\* the step of target t is the connection-lost recovery: the target was
\* reading a command and its connection is gone afterwards
LostStep(t) == spc[t] = "command" /\ client_w'[t] = 0

\* C12: when the connection is lost while the target is paused at a
\* statement, the recovery makes dbg_newstmt return: the statement proceeds
\* and the target neither reads a command nor waits for a proxy before it.
C12_LostThenProceeds ==
    [][\A t \in StmtTargets : LostStep(t) => spc'[t] = "exec"]_vars

\* the step of target t is the failure of attach_to_proxy: its debugger
\* context goes away inside a statement of the invocation
AttachFailedStep(t) == plugin_info[t] /\ ~plugin_info'[t] /\ curLine'[t] # 0

\* the count of the entity of `key' in `counts' (0: no entry)
CountOf(counts, key) ==
    IF BreakCountKey(key) \in DOMAIN counts THEN counts[BreakCountKey(key)] ELSE 0

Expected(d, src) ==
    IF d = "toProxy" /\ src = <<>> THEN Absent ELSE [null |-> FALSE, str |-> src]

\* the bytes the first n strings of msgs take on the wire
RECURSIVE Framed(_, _)
Framed(msgs, n) ==
    IF n = 0 THEN 0 ELSE Framed(msgs, n - 1) + 4 + Len(msgs[n])

\* C14: as long as no call was interrupted by a signal, however the stream
\* is split into recv results, the i-th string returned is the i-th string
\* sent (the absent-string sentinel from getNString for a zero-length one),
\* and between two strings the receiver has consumed exactly 4 + length
\* bytes for each string returned.
C14_RoundTrip ==
    eintr = 0 =>
        /\ Len(delivered) <= Len(sent)
        /\ \A i \in 1..Len(delivered) : delivered[i] = Expected(dir, sent[i])
        /\ rpc = "idle" => consumed = Framed(sent, Len(delivered))

\* two strings, one of them empty and one of full length, went through
\* getNString with at least one recv returning less than asked for
C14_Witness ==
    /\ eintr = 0 /\ partial /\ rpc = "idle" /\ dir = "toProxy"
    /\ Len(delivered) = MaxMsgs
    /\ \E i, j \in 1..MaxMsgs :
          delivered[i] = Absent /\ Len(delivered[j].str) = MaxStrLen

\* C15: a recv or send interrupted by a signal is retried transparently:
\* no connection-lost condition comes from it, the remaining-byte counter
\* of readn never exceeds what is left of len, the buffer position stays
\* inside dst, and the strings returned are the strings sent.
C15_EintrTransparent ==
    /\ lost # "interrupted send"
    /\ rpc \in {"len", "body"} =>
          /\ bytesRemaining <= rlen
          /\ rpos >= 0
          /\ rpos + bytesRemaining = rlen
    /\ \A i \in 1..Len(delivered) :
          i <= Len(sent) /\ delivered[i] = Expected(dir, sent[i])

\* ====================================================================
\* properties of the locking of the GLOBAL tables
\* ====================================================================
\* C16: every step that changes the GLOBAL breakpoint table or the GLOBAL
\* count table is taken by a backend that holds breakpointLock in exclusive
\* mode: nobody, the mutator included, holds it in shared mode.
C16_MutatorsHoldExclusive ==
    [][(globalBreakpoints' # globalBreakpoints
           \/ globalBreakCounts' # globalBreakCounts)
          => breakpointLock = {} /\ breakpointLock' = {}]_vars

\* ====================================================================
\* properties of the busy flag
\* ====================================================================
\* target u is inside connectAsClient for a GLOBAL breakpoint it matched
\* that is still in the table
AttachingThrough(u, k) ==
    /\ spc[u] = "client"
    /\ bkpt[u].scope = BP_GLOBAL
    /\ bkpt[u].dst.key = k
    /\ k \in DOMAIN globalBreakpoints

\* C17: busy gives mutual exclusion: once a target has claimed the session
\* of a proxy (its GLOBAL breakpoints are busy), no other target is on the
\* way to that proxy through one of these breakpoints: it saw the
\* breakpoint busy and skipped it.
C17_BusyExcludes ==
    \A u \in StmtTargets : \A k \in DOMAIN globalBreakpoints :
        AttachingThrough(u, k) => ~globalBreakpoints[k].busy

\* ====================================================================
\* properties of the session handles
\* ====================================================================
\* the step is a call that went through addSession
AddStep ==
    /\ lastCall'.op \in {"create_listener", "attach_to_port"}
    /\ ~raised'
    /\ allocated' # allocated

\* C18: the handle addSession returns finds the session it was given; it
\* is greater than every handle returned before, and the earlier handles
\* still find their sessions; a value that was never returned finds none.
C18_HandlesResolve ==
    [][AddStep =>
          /\ findSession(sessionHash', ret') = allocated'
          /\ \A h \in DOMAIN sessionHash :
                h < ret' /\ findSession(sessionHash', h) = sessionHash[h]
          /\ \A h \in Handles \ (DOMAIN sessionHash \cup {ret'}) :
                findSession(sessionHash', h) = 0]_vars

\* C19: addSession never returns the handle 0, and never a handle that it
\* has returned before, however often it is called.
C19_NoZeroNoReissue ==
    [][AddStep => ret' # 0 /\ ret' \notin DOMAIN sessionHash]_vars

\* C20: creating a session makes it the most recent one; a call with handle
\* 0 gets the most recent session and raises when there is none; a call
\* with a known handle gets that session and makes it the most recent one;
\* a call with an unknown handle raises; a call that raises leaves the
\* most recent session as it was.
C20_DefaultSession ==
    [][/\ (lastCall'.op \in {"create_listener", "attach_to_port"} /\ ~raised')
             => mostRecentSession' = allocated'
       /\ (lastCall'.op = "attach_to_port" /\ raised')
             => mostRecentSession' = mostRecentSession
       /\ lastCall'.op \in {"defaultSession", "wait_for_target"} =>
             LET h == lastCall'.handle
             IN  IF h = 0
                 THEN IF mostRecentSession = 0
                      THEN raised' /\ mostRecentSession' = 0
                      ELSE /\ ~raised'
                           /\ ret' = mostRecentSession
                           /\ mostRecentSession' = mostRecentSession
                 ELSE IF h \in DOMAIN sessionHash
                      THEN /\ ~raised'
                           /\ ret' = sessionHash[h]
                           /\ mostRecentSession' = sessionHash[h]
                      ELSE raised' /\ mostRecentSession' = mostRecentSession]_vars

\* a call with handle 0 returned a session that is not the last one
\* created: it became the most recent one through its handle
C20_Witness ==
    /\ lastCall = [op |-> "defaultSession", handle |-> 0]
    /\ ~raised
    /\ ret = mostRecentSession
    /\ mostRecentSession # 0
    /\ mostRecentSession # allocated

\* --------------------------------------------------------------------
\* C21: on a stop ('x') or restart ('r') command the target sends exactly
\* one "t" and then raises the query-cancelled error, which aborts the
\* statement (no further command is read, the PL stack is unwound); and no
\* other command of the loop aborts the statement.
C21_OnlyStopAborts ==
    [][lpc = "command" =>
          /\ lastCmd' \in Tags =>
                /\ out' = <<"t">>
                /\ err' = "query canceled"
                /\ lpc' = "exec"
                /\ frames' = <<>>
          /\ err' # None => lastCmd' \in Tags]_vars

\* --------------------------------------------------------------------
\* C22: an unrecognized command tag changes no debugger state (the
\* stepping flags of the frames, the step-into flag, the breakpoint
\* tables, the connection), sends no reply and leaves the target paused at
\* the same statement, reading the next command.
C22_UnrecognizedIgnored ==
    [][(lpc = "command" /\ lastCmd' = "?") =>
          /\ frames' = frames
          /\ frame' = frame
          /\ step_into_next_func' = step_into_next_func
          /\ tables' = tables
          /\ client_w' = client_w
          /\ err' = err
          /\ out' = <<>>
          /\ lpc' = "command"]_vars

\* an unrecognized command was read while the target was paused, stepping,
\* at a statement of a called function
C22_Witness ==
    /\ lpc = "command"
    /\ lastCmd = "?"
    /\ out = <<>>
    /\ Len(frames) = 2
    /\ Top.stepping
    /\ client_w[LoopTarget] # 0

\* --------------------------------------------------------------------
\* C27: each time the target pauses it sends exactly one current-location
\* message before it reads the first command, and it stays paused at the
\* same statement until it receives continue, step-into or step-over, or
\* the session is aborted (an error is raised) or lost (client_w = 0):
\* set/clear breakpoint, print, list, stack, select-frame, get-source and
\* deposit commands never return control to the interpreter.
QueryTags == {"b", "f", "p", "l", "$", "i", "^", "#", "d"}

SameStatement ==
    /\ Len(frames') = Len(frames)
    /\ \A i \in 1..Len(frames) :
          /\ frames'[i].func = frames[i].func
          /\ frames'[i].line = frames[i].line

C27_PauseLoop ==
    [][/\ (lpc' = "command" /\ lastCmd' = None) => out' = <<"line">>
       /\ (lpc = "command" /\ lpc' = "exec") =>
             \/ resumed'.fresh /\ resumed'.cmd \in {"c", "s", "o"}
             \/ err' # None
             \/ client_w'[LoopTarget] = 0
       /\ (lpc = "command" /\ lastCmd' \in QueryTags) =>
             \/ lpc' = "command" /\ SameStatement
             \/ err' # None]_vars

\* the target is still paused at statement 1 of a called function after a
\* select-frame command that moved the focus to the caller
C27_Witness ==
    /\ lpc = "command"
    /\ lastCmd = "^"
    /\ out = <<"line">>
    /\ Len(frames) = 2
    /\ frame = 1
    /\ Top.line = 1

\* --------------------------------------------------------------------
\* C28: after a continue command the target does not pause again, in any
\* frame of the call stack, callers of the function in which continue was
\* issued included, until it reaches a statement for which breakAtThisLine
\* finds an applicable breakpoint (resumed.found: it has found one since
\* the command, at this statement or at the block before it).
C28_ContinueRunsToBreakpoint ==
    [][(lpc = "exec" /\ lpc' = "command" /\ resumed.cmd = "c"
           /\ ~resumed.found) =>
          breakAtThisLine(LoopTarget, Top.func,
                          frames'[Len(frames)].line).dst # NULL]_vars

\* --------------------------------------------------------------------
\* C29: after a step-into command the next visible statement executed (the
\* first statement other than a block that begins) pauses the target, also
\* when it is the first statement of a newly called function without
\* breakpoints, and the step-into flag is cleared once that pause is taken.
C29_StepIntoPausesNext ==
    [][(lpc = "exec" /\ resumed.cmd = "s" /\ resumed.fresh
           /\ ~resumed'.fresh) =>
          /\ lpc' = "command"
          /\ ~step_into_next_func'[LoopTarget]]_vars

\* --------------------------------------------------------------------
\* C30: after a step-over command, a function called from the current
\* statement pauses the target only where a breakpoint applies (at the
\* statement, or at the block that begins the body before it), so a called
\* function without applicable breakpoint runs to completion; where one
\* applies the target pauses in the called function; and the first visible
\* statement (one that is not a block) that begins in the frame of the
\* step-over pauses the target.
C30_StepOver ==
    [][(lpc = "exec" /\ cur'.tick # cur.tick
           /\ resumed.cmd = "o" /\ resumed.depth > 0) =>
          LET applies ==
                 \/ breakAtThisLine(LoopTarget, Top.func,
                                    frames'[Len(frames)].line).dst # NULL
                 \/ resumed.found /\ Top.stepping
          IN  /\ (Len(frames) > resumed.depth /\ lpc' = "command") => applies
              /\ (Len(frames) > resumed.depth /\ cur'.kind = "stmt" /\ applies)
                    => lpc' = "command"
              /\ (Len(frames) = resumed.depth /\ cur'.kind = "stmt")
                    => lpc' = "command"]_vars

\* after a step-over in the outer frame, a called function without context
\* has begun its statement on line 1 and the target has not paused
C30_Witness ==
    /\ lpc = "exec"
    /\ resumed.cmd = "o"
    /\ resumed.depth = 1
    /\ Len(frames) = 2
    /\ ~Top.plugin_info
    /\ Top.line = 1
    /\ cur.kind = "stmt"
    /\ frames[1].stepping

\* --------------------------------------------------------------------
\* C23: BreakpointCleanupProc(p), run when the proxy backend p exits,
\* removes every GLOBAL breakpoint whose proxyPid is p and nothing else:
\* when it returns no GLOBAL entry of p exists, and none of its steps
\* changes a GLOBAL entry of another proxy or any LOCAL entry.
C23_CleanupRemovesOwn ==
    [][(pc' # pc \/ (breakpointLock # {}
                       /\ globalBreakpoints' # globalBreakpoints)) =>
          /\ \A p \in Proxies :
                (pc[p] \in Scanning /\ pc'[p] = "run") =>
                   \A k \in DOMAIN globalBreakpoints' :
                      globalBreakpoints'[k].proxyPid # p
          /\ \A k \in DOMAIN globalBreakpoints :
                \/ pc[globalBreakpoints[k].proxyPid] \in Scanning
                \/ /\ k \in DOMAIN globalBreakpoints'
                   /\ globalBreakpoints'[k] = globalBreakpoints[k]
          /\ localBreakpoints' = localBreakpoints
          /\ localBreakCounts' = localBreakCounts]_vars

\* --------------------------------------------------------------------
\* C24: deposit is two-phase.  The value is first evaluated as an
\* expression inside a subtransaction; only if that fails is the
\* subtransaction rolled back and the value retried as a quoted string
\* literal inside a new subtransaction.  The command succeeds iff one of
\* the two attempts succeeds, a failed attempt leaves the variable
\* unchanged, and exactly one reply "t" or "f" is sent per command on every
\* path.
C24_DepositTwoPhase ==
    [][/\ dep_pc \in {"try", "try_literal"} => subxacts = 1
       /\ dep_pc = "retry" => subxacts = 0
       /\ (dep_pc = "try" /\ dep_pc' = "retry") =>
             /\ datum' = datum
             /\ dep_out' = <<>>
       /\ dep_pc' = "try_literal" =>
             /\ dep_pc = "retry"
             /\ ~assign_expr(dep_cmd.typ, <<"SELECT ">> \o dep_cmd.value).ok
       /\ (dep_pc # "done" /\ dep_pc' = "done") =>
             LET c      == dep_cmd'
                 first  == assign_expr(c.typ, <<"SELECT ">> \o c.value).ok
                 second == assign_expr(c.typ, <<"SELECT ", "'">> \o c.value
                                                 \o <<"'">>).ok
             IN  /\ dep_out' \in {<<"t">>, <<"f">>}
                 /\ subxacts' = 0
                 /\ dep_out' = <<"t">> <=>
                       (c.wf /\ c.known /\ (first \/ second))
                 /\ dep_out' = <<"f">> => datum' = c.old
                 /\ (c.wf /\ c.known /\ first) => dep_pc = "try"
       /\ (dep_pc = "done" /\ dep_pc' = "idle") =>
             /\ Len(dep_out) = 1
             /\ datum' = datum]_vars

\* a deposit of the word x into the text variable has succeeded at the
\* second attempt, as a literal
C24_Witness ==
    /\ dep_pc = "done"
    /\ dep_out = <<"t">>
    /\ dep_cmd.typ = "text"
    /\ dep_cmd.value = <<"x">>
    /\ select = <<"SELECT ", "'", "x", "'">>
    /\ datum["text"] = <<"x">>
    /\ dep_cmd.old["text"] # <<"x">>

\* --------------------------------------------------------------------
\* no slot of the table is free for backend t: every slot belongs to
\* another backend
NoFreeSlot(t) ==
    \A i \in Slots :
        /\ dbgcomm_slots[i].backendid # InvalidBackendId
        /\ dbgcomm_slots[i].backendid # MyBackendId(t)

\* C26: when no target slot is free, dbgcomm_connect_to_proxy and
\* dbgcomm_listen_for_proxy return -1 to their caller, raise no error,
\* leave every slot as it was and have released the lock; the backend goes
\* on (it is idle and may call again)
C26_NoFreeSlotFails ==
    [][\A t \in WaitProcs :
          (wpc[t] \in WaitCalls /\ wpc'[t] = "out" /\ NoFreeSlot(t))
              => /\ wret'[t] = -1
                 /\ werr'[t] = None
                 /\ dbgcomm_slots' = dbgcomm_slots
                 /\ debuggerLock' = NoLock
                 /\ cpc'[t] = "idle"
                 /\ sock'[t] = NoSock]_vars

\* the target has been refused for want of a slot: both slots belong to
\* other backends, the lock is free, the target is idle without a socket
C26_Witness ==
    /\ wret[WaitTarget] = -1
    /\ werr[WaitTarget] = None
    /\ NoFreeSlot(WaitTarget)
    /\ \A i \in Slots : dbgcomm_slots[i].status = DBGCOMM_LISTENING_FOR_PROXY
    /\ debuggerLock = NoLock
    /\ cpc[WaitTarget] = "idle"
    /\ wpc[WaitTarget] = "out"

\* --------------------------------------------------------------------
\* backend p waits for a connection: accept() in dbgcomm_listen_for_proxy,
\* or the select() loop of dbgcomm_accept_target
InAcceptWait(p) == cpc[p] \in {"accept", "wait"}

\* C25: every accept wait is interruptible: a cancel request pending for
\* the waiting backend, or the death of the postmaster, eventually ends the
\* wait although no connection arrives
C25_AcceptWaitsInterruptible ==
    \A p \in WaitProcs :
        (InAcceptWait(p) /\ (QueryCancelPending[p] \/ ~postmasterAlive))
            ~> ~InAcceptWait(p)

\* --------------------------------------------------------------------
\* the keys and the data a backend t can hand to a registry call
KeysOf(t) ==
    {BreakpointKey(DbOf(t), f, l, tp) : f \in Funcs, l \in Lines, tp \in {t, AnyPid}}

DataValues ==
    {BreakpointData(tmp, busy, NoPort, NoPid) : tmp \in BOOLEAN, busy \in BOOLEAN}
    \cup {BreakpointData(TRUE, busy, ProxyPortOf(p), p) : busy \in BOOLEAN, p \in Proxies}

\* C32: BreakpointInsertOrUpdate on a key that exists stores the supplied
\* data as it is and leaves the BreakCount table alone (it returns FALSE);
\* on an absent key it does what BreakpointInsert does: the entry is
\* created with busy cleared and the count of the entity grows by one
C32_InsertOrUpdate ==
    \A t \in Targets : \A scope \in Scopes :
        LET h == getBreakpointHash(scope, t)
            c == getBreakCountHash(scope, t)
        IN  \A k \in KeysOf(t), d \in DataValues :
                LET r  == BreakpointInsertOrUpdate(h, c, k, d)
                    ck == BreakCountKey(k)
                IN  IF k \in DOMAIN h
                    THEN /\ DOMAIN r.bp = DOMAIN h
                         /\ r.bp[k] = d
                         /\ \A x \in DOMAIN h \ {k} : r.bp[x] = h[x]
                         /\ r.cnt = c
                         /\ r.ret = FALSE
                    ELSE /\ r = BreakpointInsert(h, c, k, d)
                         /\ DOMAIN r.bp = DOMAIN h \cup {k}
                         /\ r.bp[k] = [d EXCEPT !.busy = FALSE]
                         /\ breakCountLookup(r.cnt, ck).count =
                               IF ck \in DOMAIN c THEN c[ck] + 1 ELSE 1
                         /\ r.ret = TRUE

\* BreakpointBusySession has copied two GLOBAL breakpoints of a proxy
\* under one LOCAL key: the second copy went over the first with its busy
\* flag set, and the entity is still counted once
C32_Witness ==
    \E t \in Targets : \E k \in DOMAIN localBreakpoints[t] :
        /\ localBreakpoints[t][k].busy
        /\ localBreakpoints[t][k].proxyPid \in Proxies
        /\ localBreakCounts[t][BreakCountKey(k)] = 1

\* --------------------------------------------------------------------
\* the debugger state of the frames: which have a context, which step
Contexts(fs) ==
    [i \in 1..Len(fs) |-> [plugin_info |-> fs[i].plugin_info,
                           stepping    |-> fs[i].stepping]]

\* C33: a call of dbg_newstmt for a statement with lineno -1, or in a
\* frame without debugger context, changes no debugger state (the contexts
\* and stepping flags of the frames, the step-into flag, the connection,
\* the breakpoint and BreakCount tables), calls no breakAtThisLine, sends
\* nothing and reads no command
C33_InvisibleOrNoContext ==
    [][(cur'.tick # cur.tick
           /\ (cur'.kind = "invisible" \/ ~Top.plugin_info)) =>
          /\ Contexts(frames') = Contexts(frames)
          /\ step_into_next_func' = step_into_next_func
          /\ client_w' = client_w
          /\ tables' = tables
          /\ ~cur'.lookup
          /\ out' = out
          /\ lpc' = "exec"
          /\ err' = err]_vars

\* a made-up statement has begun in a stepping frame of an attached target
\* with a breakpoint at the entry of its function, and the executor runs
C33_Witness ==
    /\ cur.kind = "invisible"
    /\ lpc = "exec"
    /\ frames # <<>>
    /\ Top.plugin_info
    /\ Top.stepping
    /\ client_w[LoopTarget] # 0
    /\ breakAtThisLine(LoopTarget, Top.func, EntryLine).dst # NULL

\* --------------------------------------------------------------------
\* C34: when a frame with a debugger context reaches a visible statement
\* on line L and the three-step lookup finds an applicable breakpoint with
\* lineNumber L for the function, the target goes toward attached
\* execution at that statement (the frame steps and a client is attached,
\* or the attach failed and the frame has lost its context); the first
\* statement of the function is no exception.
C34_BreakpointAtLinePauses ==
    [][(cur'.tick # cur.tick /\ cur'.kind # "invisible" /\ Top.plugin_info
           /\ breakAtThisLine(LoopTarget, Top.func, cur'.lineno).dst # NULL) =>
          \/ /\ frames'[Len(frames)].stepping
             /\ client_w'[LoopTarget] # 0
          \/ ~frames'[Len(frames)].plugin_info]_vars

\* --------------------------------------------------------------------
\* C35: a temporary breakpoint (isTmp, as pldbg_set_global_breakpoint
\* stores it) is removed from its table when a target hits it: once the
\* target pauses at it, the entry it has found is no longer in the table
\* it was found in, so it cannot make a target pause a second time.
C35_TmpRemovedWhenHit ==
    [][\A t \in StmtTargets :
          (/\ spc[t] # "command"
           /\ spc'[t] = "command"
           /\ bkpt'[t].dst # NULL
           /\ bkpt'[t].dst.data.isTmp) =>
              bkpt'[t].dst.key \notin
                  DOMAIN (IF bkpt'[t].scope = BP_GLOBAL
                          THEN globalBreakpoints'
                          ELSE localBreakpoints'[t])]_vars

\* --------------------------------------------------------------------
\* C37: when pldbg_wait_for_target has accepted a connection whose
\* credentials are invalid and has answered "f" on it, it closes that
\* connection and waits for another target: no error is raised, and
\* nothing but the "f" is sent on the rejected connection.
C37_InvalidCredentialsRejected ==
    [][(/\ wft_pc = "authenticate"
        /\ wft_conns[serverSocket].cred = "invalid"
        /\ wft_conns'[serverSocket].sent # <<>>) =>
           /\ wft_conns'[serverSocket].sent = <<"f">>
           /\ ~wft_conns'[serverSocket].open
           /\ wft_err' = None
           /\ wft_pc' = "select"]_vars

\* --------------------------------------------------------------------
\* the LOCAL entries of t that BreakpointBusySession has copied from the
\* GLOBAL table, and the GLOBAL entries that a lookup by u for line l of
\* function f can find
Clones(t) ==
    {k \in DOMAIN localBreakpoints[t] : localBreakpoints[t][k].proxyPid \in Proxies}

GlobalAt(f, l, u) ==
    {g \in DOMAIN globalBreakpoints :
        /\ g.functionId = f
        /\ g.lineNumber = l
        /\ g.targetPid \in {u, AnyPid}}

C36_PortPostedBeforeConnect ==
    [][/\ \A p \in CommProxies :
             cpc[p] = "connect" =>
                /\ dbgcomm_slots[slot[p]].status = DBGCOMM_PROXY_CONNECTING
                /\ dbgcomm_slots[slot[p]].port = localport[p]
       /\ \A t \in CommTargets :
             cpc[t] = "dial" =>
                /\ dbgcomm_slots[slot[t]].status = DBGCOMM_CONNECTING_TO_PROXY
                /\ dbgcomm_slots[slot[t]].port = localport[t]
       /\ \A c \in DOMAIN conns :
             (c.from # Decoy /\ conns[c] = "pending" /\ c \in DOMAIN conns')
                => conns'[c] # "closed"]_vars

\* both flows have run: one target holds the accepted connection of the
\* proxy that dialed it, and the other target has dialed the proxy, its
\* connection waiting with its port in its slot
C36_Witness ==
    \E t \in CommTargets : \E u \in CommTargets \ {t} :
        /\ cpc[t] = "attached"
        /\ sock[t].from \in CommProxies
        /\ sock[t] \in DOMAIN conns
        /\ conns[sock[t]] = "accepted"
        /\ cpc[u] = "attached"
        /\ sock[u].from = u
        /\ sock[u] \in DOMAIN conns
        /\ conns[sock[u]] = "pending"
        /\ SlotsOfPort(sock[u].src) # {}

\* ====================================================================
\* properties of two proxies that ask for the same target
\* ====================================================================
\* the slot of the backend the proxies ask for
TargetSlotOf(slots) == findTargetSlot(slots, MyBackendId(WaitTarget))

\* the proxies between the critical section of dbgcomm_connect_to_target
\* and its connect()
Dialing == {p \in DialProxies : cpc[p] = "connect"}

\* C39: when two proxies call dbgcomm_connect_to_target for the same
\* listening backend, one of them moves the slot from LISTENING_FOR_PROXY to
\* PROXY_CONNECTING and records its port; the other fails with "target
\* backend is not listening" and leaves the slot as it is; and the target
\* accepts the connection of the winner only
C39_OneProxyWins ==
    [][LET i == TargetSlotOf(dbgcomm_slots)
       IN  /\ Cardinality(Dialing') <= 1
           \* the step that takes the slot is the step of one proxy, whose
           \* port is recorded
           /\ (/\ i # NoSlot
               /\ dbgcomm_slots[i].status = DBGCOMM_LISTENING_FOR_PROXY
               /\ dbgcomm_slots'[i].status = DBGCOMM_PROXY_CONNECTING)
              => \E p \in DialProxies :
                    /\ Dialing' = {p}
                    /\ dbgcomm_slots'[i].port = localport'[p]
                    /\ werr'[p] = None
           \* a proxy that finds the slot taken fails and leaves it alone
           /\ \A p \in DialProxies :
                 (/\ i # NoSlot
                  /\ dbgcomm_slots[i].status = DBGCOMM_PROXY_CONNECTING
                  /\ cpc[p] = "idle"
                  /\ <<cpc[p], werr[p]>> # <<cpc'[p], werr'[p]>>)
                 => /\ werr'[p] = NotListening
                    /\ cpc'[p] = "idle"
                    /\ UNCHANGED <<dbgcomm_slots, conns, sock, boundPorts>>
           \* the connection the target accepts is the winner's
           /\ (cpc[WaitTarget] = "accept" /\ cpc'[WaitTarget] = "attached")
              => \E p \in DialProxies :
                    /\ sock'[WaitTarget] = sock[p]
                    /\ cpc[p] = "attached"
                    /\ localport[p] = dbgcomm_slots[slot[WaitTarget]].port
                    /\ \A q \in DialProxies \ {p} :
                          sock'[WaitTarget] # sock[q]]_vars

\* one proxy is attached to the target, the other one was refused
C39_Witness ==
    \E p, q \in DialProxies :
       /\ p # q
       /\ cpc[WaitTarget] = "attached"
       /\ sock[WaitTarget] = sock[p]
       /\ cpc[p] = "attached"
       /\ werr[q] = NotListening
       /\ cpc[q] = "idle"

\* C40: a target that waits in dbgcomm_listen_for_proxy remains attachable:
\* when no proxy is between the critical section and connect(), and no
\* connection waits on the target's listener, a call of
\* dbgcomm_connect_to_target for this backend is not refused
C40_TargetRemainsAttachable ==
    [][\A p \in DialProxies :
          (/\ cpc[WaitTarget] = "accept"
           /\ Dialing = {}
           /\ Pending(localport[WaitTarget]) = {}
           /\ cpc[p] = "idle"
           /\ <<cpc[p], werr[p]>> # <<cpc'[p], werr'[p]>>)
          => werr'[p] # NotListening]_vars

\* ====================================================================
\* properties of send_breakpoints
\* ====================================================================
\* C38: a target never performs client I/O, and never unwinds through the
\* connection-lost jump, while it holds the lock of the GLOBAL registry:
\* a target that holds breakpointLock has nothing to send before it
\* releases it, and a target outside send_breakpoints does not hold it
C38_NoClientIOUnderLock ==
    \A t \in Targets :
       t \in breakpointLock => lst[t].pos = "global" /\ Unsent(t) = {}

====
